---- MODULE Spec2Model ----
(***************************************************************************)
(* CDC-NCM class of embassy-usb-ncm (src/embassy-usb-ncm/src/lib.rs):      *)
(* the NTB encoder (Sender), the NTB decoder (Receiver) and the control    *)
(* handlers that keep the shared link state.                               *)
(*                                                                         *)
(* Bytes are integers 0..255, byte strings are sequences (1-based here,    *)
(* 0-based in the source: source offset k is index k+1).  An async fn is   *)
(* cut at its await points: one action runs from one endpoint operation's  *)
(* completion to the next operation's start (or to the return).            *)
(*                                                                         *)
(* After split() the Sender, the Receiver and the control handlers share   *)
(* no state, so each is explored in a specification of its own (SpecTx,    *)
(* SpecRx, SpecCtl); SpecLoop joins Sender and Receiver through a host     *)
(* that sends back what it receives, and SpecSeq runs the Sender over the  *)
(* whole range of its 16-bit sequence counter.  SpecIo puts Sender and     *)
(* Receiver side by side with every endpoint operation free to fail, and   *)
(* SpecWc runs wait_connection while the host changes the link state.      *)
(***************************************************************************)
EXTENDS Integers, Sequences, FiniteSets, TLC

(***************************************************************************)
(* Program constants.                                                      *)
(***************************************************************************)
NTB_MAX_SIZE == 1600
\* 0x484d434e
NTH_SIG == 1213023054
\* 0x304d434e
NDP_SIG == 810369870
ALTERNATE_SETTING_DISABLED == 0
ALTERNATE_SETTING_ENABLED == 1
MAX_PACKET_SIZE == 64
OUT_HEADER_LEN == 28
\* size_of of the two header parts of NtbOutHeader (nth_len, ndp_len).
NTH_LEN == 12
NDP_LEN == 16
REQ_SEND_ENCAPSULATED_COMMAND == 0
\* 0x80
REQ_GET_NTB_PARAMETERS == 128
\* 0x86
REQ_SET_NTB_INPUT_SIZE == 134
\* u16 arithmetic: Sender.seq and the `as u16` casts.
U16_MOD == 65536
\* Duration::from_secs(1) of wait_connection, in seconds.
SETTLE_SECS == 1

(***************************************************************************)
(* Bounds of the model.                                                    *)
(***************************************************************************)
\* write_packet calls in one behaviour (all specifications but SpecSeq).
MaxWrites == 2
\* Datagram lengths are taken this close around each fragmentation boundary.
LenSlack == 1
\* NTBs the host sends of its own in one behaviour.
MaxHostSends == 2
\* write_packet calls in one behaviour of the loopback.
MaxLoopWrites == 2
\* Calls of each waker's wake() in one behaviour.
MaxWakes == 3
\* write_packet calls, and NTBs of the host, in one behaviour of SpecIo.
MaxIoCalls == 1
\* In one behaviour of SpecDev: write_packet calls, NTBs of the host and
\* notifications; waking handler calls; seconds.
MaxDevCalls == 1
MaxDevWakes == 1
MaxDevTime == 1
\* NTBs the host sends in one behaviour of SpecFill.
MaxFillSends == 1
\* write_packet calls in one behaviour of SpecBig.
MaxBigWrites == 1
\* write_packet calls in one behaviour of SpecStream.
MaxStreamWrites == 2
\* NTBs the host sends in one behaviour of SpecEntries.
MaxEntriesSends == 2
\* NTBs the host sends in one behaviour of SpecStale.
MaxStaleSends == 2
\* In one behaviour of SpecChain: NTBs of the host; datagrams returned.
MaxChainSends == 2
MaxChainReads == 6
\* In one behaviour of SpecTask: NTBs of the host; waking handler calls;
\* seconds.
MaxTaskSends == 1
MaxTaskWakes == 1
MaxTaskTime == 2
\* NTBs the host sends in one behaviour of SpecRxMps.
MaxMpsSends == 1
\* The time runs up to this many seconds.
MaxTime == 5
\* Link-up notifications written in one behaviour.
MaxNotifs == 2

(***************************************************************************)
(* Byte-level helpers.                                                     *)
(***************************************************************************)
\* The bytes of a u16 / u32 field of a packed struct as byteify copies them
\* on the little-endian targets: least significant byte first.
LE16(v) == << v % 256, (v \div 256) % 256 >>

\* Mutant: most significant byte first.
BE32(v) == << (v \div 16777216) % 256, (v \div 65536) % 256, (v \div 256) % 256, v % 256 >>

LE32(v) == << v % 256, (v \div 256) % 256, (v \div 65536) % 256, (v \div 16777216) % 256 >>

\* `x as u16`.
AsU16(x) == x % U16_MOD

Min(a, b) == IF a < b THEN a ELSE b

\* slice.chunks(n): consecutive chunks of n elements, the last one shorter
\* when n does not divide the length; no chunk for an empty slice.
NumChunks(s, n) == (Len(s) + n - 1) \div n

ChunkAt(s, n, k) == SubSeq(s, (k - 1) * n + 1, Min(k * n, Len(s)))

Chunks(s, n) == [k \in 1..NumChunks(s, n) |-> ChunkAt(s, n, k)]

\* Concatenation of a sequence of packets.
RECURSIVE Flatten(_)
Flatten(ps) == IF Len(ps) = 0 THEN << >> ELSE Head(ps) \o Flatten(Tail(ps))

(***************************************************************************)
(* The datagrams handed to write_packet: byte i depends on i and on the    *)
(* length, with a period that is prime to the packet size.                 *)
(***************************************************************************)
Datagram(L) == [i \in 1..L |-> (L + 3 * i) % 251]

\* First datagram lengths that fill 1, 2 and 3 packets exactly.
BoundaryLens == { k * MAX_PACKET_SIZE - OUT_HEADER_LEN : k \in 1..3 }

DatagramLens ==
    {0, 30, NTB_MAX_SIZE - OUT_HEADER_LEN}
    \cup UNION { { b - k, b + k } : k \in 0..LenSlack, b \in BoundaryLens }

Datagrams == { Datagram(L) : L \in DatagramLens }

\* The datagrams sent through the loopback: an empty one, a short one, one
\* that ends its first packet, one that ends a later packet, the largest.
LoopDatagrams ==
    { Datagram(L) : L \in {0, 30, 36, 100, 101, NTB_MAX_SIZE - OUT_HEADER_LEN} }

(***************************************************************************)
(* State.                                                                  *)
(***************************************************************************)
VARIABLES
    \* Sender
    seq,        \* Sender.seq
    tx_pc,      \* "idle" | "writing": write_packet is suspended in an endpoint write
    tx_data,    \* the `data` argument of the current (or last) write_packet call
    tx_header,  \* the 28 bytes of `header` built by that call
    tx_sent,    \* the packets whose endpoint write completed Ok in that call
    tx_res,     \* "none" | "Ok" | "Err": what that call returned
    tx_err,     \* the EndpointError of an Err it returned, else "none"
    wr_fail,    \* the endpoint write that failed in that call: [err, n], the
                \* error write_ep.write returned and n for the call's n-th write
    \* Receiver
    ntb,        \* Receiver.ntb up to the last byte ever written; the bytes after
                \* it, up to NTB_MAX_SIZE, still hold the 0 of split()
    ntb_index,  \* Receiver.ntb_index, the cursor
    rx_pc,      \* "idle" | "reading" (suspended in an endpoint read) | "panicked"
    rx_pos,     \* the local `pos` of the accumulation loop
    rx_reads,   \* endpoint reads completed Ok by the current (or last) read_packet call
    rx_res,     \* what that call returned: [kind, n, buf], buf = out_buf[..n]
    rx_err,     \* the EndpointError of an Err it returned, else "none"
    rd_fail,    \* the endpoint read that failed in that call: [err, n], the
                \* error read_ep.read returned and n for the call's n-th read
    \* Receiver::wait_connection
    data_if,    \* Receiver.data_if, the number of the data interface
    wc_pc,      \* "idle" | "wait_enabled" | "timer" | "writing" | "panicked"
    wc_deadline,\* the expiry time of the Timer the call waits on
    wc_trace,   \* what the current (or last) call has seen complete: [ev, t]
    notifs,     \* the packets written to the interrupt endpoint comm_ep
    now,        \* the time, in seconds
    \* usb_ncm_rx_task, the owner of the Receiver
    task_pc,    \* "none" (the Receiver is driven directly) | "connect" (at the
                \* top of the outer loop, or in wait_connection) | "connected"
                \* (in the inner loop) | "dead" (it has panicked)
    task_log,   \* how the Receiver calls of the task have ended, in order
    \* Endpoints and the host behind them
    max_packet_size, \* read_ep.info().max_packet_size
    rxq,        \* bulk-OUT packets the host has sent and the device has not read
    host_sends, \* NTBs the host has sent of its own
    loop_log,   \* datagrams whose write_packet returned Ok towards a loopback host
    delivered,  \* datagrams read_packet has returned to its caller, in order
    \* Shared link state and the control handlers
    enabled,    \* ControlShared.enabled
    rx_wakes,   \* calls of ControlShared.rx_waker.wake()
    tx_wakes,   \* calls of ControlShared.tx_waker.wake()
    rx_waker,   \* ControlShared.rx_waker: the task registered in it, or "none"
    tx_waker,   \* ControlShared.tx_waker: the task registered in it, or "none"
    ctl_ops,    \* what the last control-handler call did to the shared state,
                \* in program order: [op, arg, woke]
    ctl_last    \* the last control-handler call: [h, arg, resp, data]

txVars == << seq, tx_pc, tx_data, tx_header, tx_sent, tx_res, tx_err, wr_fail >>

wcVars == << data_if, wc_pc, wc_deadline, wc_trace, notifs, now >>

taskVars == << task_pc, task_log >>

rxVars == << ntb, ntb_index, rx_pc, rx_pos, rx_reads, rx_res, rx_err, rd_fail, wcVars, taskVars >>

hostVars == << max_packet_size, rxq, host_sends, loop_log, delivered >>

linkVars == << enabled, rx_wakes, tx_wakes, rx_waker, tx_waker, ctl_ops, ctl_last >>

vars == << txVars, rxVars, hostVars, linkVars >>

(***************************************************************************)
(* Endpoint errors.                                                        *)
(***************************************************************************)
\* The values of EndpointError an endpoint operation can fail with.
EndpointErrors == { "BufferOverflow", "Disabled" }

\* No endpoint operation of the call has failed.
NoFail == [err |-> "none", n |-> 0]

Fail(e, n) == [err |-> e, n |-> n]

(***************************************************************************)
(* Sender::write_packet                                                    *)
(***************************************************************************)
\* Mutant: nth_total_len leaves the header out.
NtbOutHeaderTotalIsLen(s, n) ==
    LE32(NTH_SIG) \o LE16(NTH_LEN) \o LE16(s) \o LE16(AsU16(n)) \o LE16(NTH_LEN)
    \o LE32(NDP_SIG) \o LE16(NDP_LEN) \o LE16(0) \o LE16(OUT_HEADER_LEN) \o LE16(AsU16(n))
    \o LE16(0) \o LE16(0)

\* byteify(NtbOutHeader { .. }) for sequence number s and data.len() = n.
NtbOutHeader(s, n) ==
    LE32(NTH_SIG) \o LE16(NTH_LEN) \o LE16(s) \o LE16(AsU16(n + OUT_HEADER_LEN)) \o LE16(NTH_LEN)
    \o LE32(NDP_SIG) \o LE16(NDP_LEN) \o LE16(0) \o LE16(OUT_HEADER_LEN) \o LE16(AsU16(n))
    \o LE16(0) \o LE16(0)

\* `OUT_HEADER_LEN + data.len() < MAX_PACKET_SIZE`: the first packet is not full.
FirstPacketShort(data) == OUT_HEADER_LEN + Len(data) < MAX_PACKET_SIZE

\* data.split_at(MAX_PACKET_SIZE - OUT_HEADER_LEN)
SplitD1(data) == SubSeq(data, 1, MAX_PACKET_SIZE - OUT_HEADER_LEN)

\* Mutant: d2 starts one byte early and repeats the last byte of d1.
SplitD2Overlap(data) == SubSeq(data, MAX_PACKET_SIZE - OUT_HEADER_LEN, Len(data))

SplitD2(data) == SubSeq(data, MAX_PACKET_SIZE - OUT_HEADER_LEN + 1, Len(data))

\* Mutant: the zero-length packet is never sent.
NeedZlpNever(d2) == FALSE

\* `d2.len() % MAX_PACKET_SIZE == 0`: a zero-length packet ends the transfer.
NeedZlp(d2) == Len(d2) % MAX_PACKET_SIZE = 0

\* The number of endpoint writes one write_packet call issues when none fails.
NumWrites(data) ==
    IF FirstPacketShort(data) THEN 1
    ELSE 1 + NumChunks(SplitD2(data), MAX_PACKET_SIZE)
           + (IF NeedZlp(SplitD2(data)) THEN 1 ELSE 0)

\* Mutant: the header is written as a packet of its own, before the data.
NthWriteHeaderAlone(header, data, k) ==
    IF k = 1 THEN header
    ELSE IF FirstPacketShort(data) THEN data
    ELSE IF k <= 1 + NumChunks(SplitD2(data), MAX_PACKET_SIZE)
    THEN ChunkAt(SplitD2(data), MAX_PACKET_SIZE, k - 1)
    ELSE << >>

\* Mutant: a short first packet is written as the whole of `buf`.
NthWriteWholeBuf(header, data, k) ==
    IF FirstPacketShort(data)
    THEN header \o data \o [i \in 1..(MAX_PACKET_SIZE - OUT_HEADER_LEN - Len(data)) |-> 0]
    ELSE IF k = 1 THEN header \o SplitD1(data)
    ELSE IF k <= 1 + NumChunks(SplitD2(data), MAX_PACKET_SIZE)
    THEN ChunkAt(SplitD2(data), MAX_PACKET_SIZE, k - 1)
    ELSE << >>

\* The bytes of the k-th endpoint write of the call: the first packet from
\* `buf`, then the chunks of d2, then the zero-length packet.
NthWrite(header, data, k) ==
    IF FirstPacketShort(data) THEN header \o data
    ELSE IF k = 1 THEN header \o SplitD1(data)
    ELSE IF k <= 1 + NumChunks(SplitD2(data), MAX_PACKET_SIZE)
    THEN ChunkAt(SplitD2(data), MAX_PACKET_SIZE, k - 1)
    ELSE << >>

\* Mutant: seq.saturating_add(1).
SaturatingAdd1(s) == IF s + 1 < U16_MOD THEN s + 1 ELSE s

\* seq.wrapping_add(1)
WrappingAdd1(s) == (s + 1) % U16_MOD

\* Entry of write_packet up to the first endpoint write, which is left pending.
WriteStart(data) ==
    /\ tx_pc = "idle"
    /\ seq' = WrappingAdd1(seq)
    /\ tx_header' = NtbOutHeader(seq, Len(data))
    /\ tx_data' = data
    /\ tx_sent' = << >>
    /\ tx_res' = "none"
    /\ tx_err' = "none"
    /\ wr_fail' = NoFail
    /\ tx_pc' = "writing"
    /\ UNCHANGED << rxVars, hostVars, linkVars >>

\* The pending endpoint write completes Ok; the call issues the next write
\* or, when that was the last one, returns Ok(()).  loop: the host sends
\* every packet it receives straight back on bulk-OUT (a loopback host).
EpWriteOk(loop) ==
    /\ tx_pc = "writing"
    /\ LET pkt == NthWrite(tx_header, tx_data, Len(tx_sent) + 1)
           last == Len(tx_sent) + 1 = NumWrites(tx_data)
       IN /\ tx_sent' = Append(tx_sent, pkt)
          /\ tx_pc' = IF last THEN "idle" ELSE "writing"
          /\ tx_res' = IF last THEN "Ok" ELSE "none"
          /\ rxq' = IF loop THEN Append(rxq, pkt) ELSE rxq
          /\ loop_log' = IF loop /\ last THEN Append(loop_log, tx_data) ELSE loop_log
    /\ UNCHANGED << seq, tx_data, tx_header, tx_err, wr_fail >>
    /\ UNCHANGED << max_packet_size, host_sends, delivered >>
    /\ UNCHANGED << rxVars, linkVars >>

\* Mutant: a failed call takes its sequence number back.
EpWriteErrRollback(e) ==
    /\ tx_pc = "writing"
    /\ tx_pc' = "idle"
    /\ tx_res' = "Err"
    /\ tx_err' = e
    /\ wr_fail' = Fail(e, Len(tx_sent) + 1)
    /\ seq' = (seq + U16_MOD - 1) % U16_MOD
    /\ UNCHANGED << tx_data, tx_header, tx_sent >>
    /\ UNCHANGED << rxVars, hostVars, linkVars >>

\* The pending endpoint write fails with error e: `?` returns Err(e) at once.
EpWriteErr(e) ==
    /\ tx_pc = "writing"
    /\ tx_pc' = "idle"
    /\ tx_res' = "Err"
    /\ tx_err' = e
    /\ wr_fail' = Fail(e, Len(tx_sent) + 1)
    /\ UNCHANGED << seq, tx_data, tx_header, tx_sent >>
    /\ UNCHANGED << rxVars, hostVars, linkVars >>

(***************************************************************************)
(* Receiver::read_packet                                                   *)
(***************************************************************************)
NoResult == [kind |-> "none", n |-> 0, buf |-> << >>]

ErrResult == [kind |-> "Err", n |-> 0, buf |-> << >>]

PanicResult == [kind |-> "panic", n |-> 0, buf |-> << >>]

\* How a read_packet call that returned res ended.
ResultEvent(res) ==
    IF res.kind = "Ok" THEN "read_ok" ELSE IF res.kind = "Err" THEN "read_err" ELSE "panic"

\* Mutant: the task goes on reading after a read error.
TaskNextKeepsReading(ev) ==
    IF ev = "panic" THEN "dead" ELSE "connected"

\* usb_ncm_rx_task after a Receiver call that ended with ev: the return of
\* wait_connection enters the inner loop, Ok(n) stays in it, Err(e) breaks
\* out of it to the top of the outer loop, and a panic ends the task.
TaskNext(ev) ==
    IF ev = "panic" THEN "dead"
    ELSE IF ev = "read_err" THEN "connect"
    ELSE "connected"

\* A Receiver call returns to its caller (or panics) with ev.
Returned(ev) ==
    IF task_pc = "none"
    THEN UNCHANGED taskVars
    ELSE /\ task_pc' = TaskNext(ev)
         /\ task_log' = Append(task_log, ev)

\* The caller's out_buf is as long as the largest NTB.
OutBufLen == NTB_MAX_SIZE

\* self.ntb[off] for a 0-based offset off < NTB_MAX_SIZE.
NtbByte(nt, off) == IF off < Len(nt) THEN nt[off + 1] ELSE 0

\* u16::from_le_bytes(self.ntb[off..off+2])
NtbU16(nt, off) == NtbByte(nt, off) + 256 * NtbByte(nt, off + 1)

\* self.ntb[from..][..n]
NtbSlice(nt, from, n) ==
    IF from + n <= Len(nt) THEN SubSeq(nt, from + 1, from + n)
    ELSE [i \in 1..n |-> NtbByte(nt, from + i - 1)]

\* Mutant: the cursor is left on the NDP just consumed.
ConsumeNdpStays(nt, idx) ==
    IF idx + 12 > NTB_MAX_SIZE
    THEN [pc |-> "panicked", index |-> idx, res |-> PanicResult]
    ELSE LET next == NtbU16(nt, idx + 6)
             datagram_index == NtbU16(nt, idx + 8)
             datagram_len == NtbU16(nt, idx + 10)
         IN IF \/ datagram_index + datagram_len > NTB_MAX_SIZE
               \/ datagram_len > OutBufLen
            THEN [pc |-> "panicked", index |-> idx, res |-> PanicResult]
            ELSE [pc |-> "idle", index |-> idx,
                  res |-> [kind |-> "Ok", n |-> datagram_len,
                           buf |-> NtbSlice(nt, datagram_index, datagram_len)]]

\* Mutant: the cursor is not advanced along the chain but reset.
ConsumeNdpResetCursor(nt, idx) ==
    IF idx + 12 > NTB_MAX_SIZE
    THEN [pc |-> "panicked", index |-> idx, res |-> PanicResult]
    ELSE LET datagram_index == NtbU16(nt, idx + 8)
             datagram_len == NtbU16(nt, idx + 10)
         IN IF \/ datagram_index + datagram_len > NTB_MAX_SIZE
               \/ datagram_len > OutBufLen
            THEN [pc |-> "panicked", index |-> 0, res |-> PanicResult]
            ELSE [pc |-> "idle", index |-> 0,
                  res |-> [kind |-> "Ok", n |-> datagram_len,
                           buf |-> NtbSlice(nt, datagram_index, datagram_len)]]

\* Lines 421-428: consume the NDP at cursor idx of the accumulated buffer nt.
\* A slice that leaves its buffer panics.
ConsumeNdp(nt, idx) ==
    IF idx + 12 > NTB_MAX_SIZE
    THEN [pc |-> "panicked", index |-> idx, res |-> PanicResult]
    ELSE LET next == NtbU16(nt, idx + 6)
             datagram_index == NtbU16(nt, idx + 8)
             datagram_len == NtbU16(nt, idx + 10)
         IN IF \/ datagram_index + datagram_len > NTB_MAX_SIZE
               \/ datagram_len > OutBufLen
            THEN [pc |-> "panicked", index |-> next, res |-> PanicResult]
            ELSE [pc |-> "idle", index |-> next,
                  res |-> [kind |-> "Ok", n |-> datagram_len,
                           buf |-> NtbSlice(nt, datagram_index, datagram_len)]]

\* Mutant: the signature is not checked.
SigNotChecked(nt) == TRUE

\* `assert_eq!(sig, NTH_SIG)` for sig = u32::from_le_bytes(self.ntb[0..4]):
\* the four bytes are those of NTH_SIG, least significant first.
SigOk(nt) == NtbSlice(nt, 0, 4) = LE32(NTH_SIG)

\* Mutant: a zero first-NDP offset is not rejected.
ProcessNtbNoZeroCheck(nt) ==
    IF ~SigOk(nt)
    THEN [pc |-> "panicked", index |-> 0, res |-> PanicResult]
    ELSE ConsumeNdp(nt, NtbU16(nt, 10))

\* Lines 414-418 and on: process the NTB header of a freshly accumulated nt.
ProcessNtb(nt) ==
    IF ~SigOk(nt)
    THEN [pc |-> "panicked", index |-> 0, res |-> PanicResult]
    ELSE IF NtbU16(nt, 10) = 0
    THEN [pc |-> "panicked", index |-> 0, res |-> PanicResult]
    ELSE ConsumeNdp(nt, NtbU16(nt, 10))

\* Mutant: every packet is read to the start of the buffer.
StorePacketAtStart(nt, pos, pkt) ==
    pkt \o SubSeq(nt, Len(pkt) + 1, Len(nt))

\* read_ep.read(&mut self.ntb[pos..]) copied pkt to offset pos.
StorePacket(nt, pos, pkt) ==
    NtbSlice(nt, 0, pos) \o pkt \o SubSeq(nt, pos + Len(pkt) + 1, Len(nt))

\* What the caller of read_packet keeps of a returned datagram.
Deliver(res) == IF res.kind = "Ok" THEN Append(delivered, res.buf) ELSE delivered

\* Mutant: every call reads a fresh NTB, whatever the cursor.
ReadStartAlwaysReads ==
    /\ rx_pc = "idle"
    /\ wc_pc = "idle"
    /\ rx_reads' = 0
    /\ rx_err' = "none"
    /\ rd_fail' = NoFail
    /\ rx_pc' = "reading"
    /\ rx_pos' = 0
    /\ rx_res' = NoResult
    /\ UNCHANGED << ntb, ntb_index, delivered, taskVars >>
    /\ UNCHANGED << max_packet_size, rxq, host_sends, loop_log >>
    /\ UNCHANGED << txVars, linkVars, wcVars >>

\* Entry of read_packet.  With a zero cursor the first endpoint read is left
\* pending; otherwise the next NDP of the buffered NTB is consumed at once.
ReadStart ==
    /\ rx_pc = "idle"
    /\ wc_pc = "idle"
    /\ rx_reads' = 0
    /\ rx_err' = "none"
    /\ rd_fail' = NoFail
    /\ IF ntb_index = 0
       THEN /\ rx_pc' = "reading"
            /\ rx_pos' = 0
            /\ rx_res' = NoResult
            /\ UNCHANGED << ntb, ntb_index, delivered, taskVars >>
       ELSE LET o == ConsumeNdp(ntb, ntb_index)
            IN /\ rx_pc' = o.pc
               /\ ntb_index' = o.index
               /\ rx_res' = o.res
               /\ delivered' = Deliver(o.res)
               /\ Returned(ResultEvent(o.res))
               /\ UNCHANGED << ntb, rx_pos >>
    /\ UNCHANGED << max_packet_size, rxq, host_sends, loop_log >>
    /\ UNCHANGED << txVars, linkVars, wcVars >>

\* Mutant: only a zero-length packet ends the NTB.
EpReadOkStopsOnEmpty ==
    /\ rx_pc = "reading"
    /\ rxq # << >>
    /\ Len(Head(rxq)) <= NTB_MAX_SIZE - rx_pos
    /\ LET pkt == Head(rxq)
           n == Len(pkt)
           nt == StorePacket(ntb, rx_pos, pkt)
       IN /\ rxq' = Tail(rxq)
          /\ ntb' = nt
          /\ rx_pos' = rx_pos + n
          /\ rx_reads' = rx_reads + 1
          /\ IF n = 0
             THEN LET o == ProcessNtb(nt)
                  IN /\ rx_pc' = o.pc
                     /\ ntb_index' = o.index
                     /\ rx_res' = o.res
                     /\ delivered' = Deliver(o.res)
                     /\ Returned(ResultEvent(o.res))
             ELSE /\ rx_pc' = "reading"
                  /\ UNCHANGED << ntb_index, rx_res, delivered, taskVars >>
    /\ UNCHANGED << rx_err, rd_fail, wcVars >>
    /\ UNCHANGED << max_packet_size, host_sends, loop_log >>
    /\ UNCHANGED << txVars, linkVars >>

\* Mutant: the endpoint read takes a packet whatever is left of the buffer.
EpReadOkUnbounded ==
    /\ rx_pc = "reading"
    /\ rxq # << >>
    /\ LET pkt == Head(rxq)
           n == Len(pkt)
           nt == StorePacket(ntb, rx_pos, pkt)
       IN /\ rxq' = Tail(rxq)
          /\ ntb' = nt
          /\ rx_pos' = rx_pos + n
          /\ rx_reads' = rx_reads + 1
          /\ IF n < max_packet_size
             THEN LET o == ProcessNtb(nt)
                  IN /\ rx_pc' = o.pc
                     /\ ntb_index' = o.index
                     /\ rx_res' = o.res
                     /\ delivered' = Deliver(o.res)
                     /\ Returned(ResultEvent(o.res))
             ELSE /\ rx_pc' = "reading"
                  /\ UNCHANGED << ntb_index, rx_res, delivered, taskVars >>
    /\ UNCHANGED << rx_err, rd_fail, wcVars >>
    /\ UNCHANGED << max_packet_size, host_sends, loop_log >>
    /\ UNCHANGED << txVars, linkVars >>

\* The pending endpoint read completes Ok(n) with the next packet of the host,
\* which fits the rest of the buffer.  A full-size packet leaves the next read
\* pending; a short one ends the NTB, which is processed up to the return.
EpReadOk ==
    /\ rx_pc = "reading"
    /\ rxq # << >>
    /\ Len(Head(rxq)) <= NTB_MAX_SIZE - rx_pos
    /\ LET pkt == Head(rxq)
           n == Len(pkt)
           nt == StorePacket(ntb, rx_pos, pkt)
       IN /\ rxq' = Tail(rxq)
          /\ ntb' = nt
          /\ rx_pos' = rx_pos + n
          /\ rx_reads' = rx_reads + 1
          /\ IF n < max_packet_size
             THEN LET o == ProcessNtb(nt)
                  IN /\ rx_pc' = o.pc
                     /\ ntb_index' = o.index
                     /\ rx_res' = o.res
                     /\ delivered' = Deliver(o.res)
                     /\ Returned(ResultEvent(o.res))
             ELSE /\ rx_pc' = "reading"
                  /\ UNCHANGED << ntb_index, rx_res, delivered, taskVars >>
    /\ UNCHANGED << rx_err, rd_fail, wcVars >>
    /\ UNCHANGED << max_packet_size, host_sends, loop_log >>
    /\ UNCHANGED << txVars, linkVars >>

\* Mutant: a failed endpoint read is issued again.
EpReadErrRetry(e) ==
    /\ rx_pc = "reading"
    /\ rx_pc' = IF rd_fail = NoFail THEN "reading" ELSE "idle"
    /\ rx_res' = IF rd_fail = NoFail THEN NoResult ELSE ErrResult
    /\ rx_err' = IF rd_fail = NoFail THEN "none" ELSE e
    /\ rd_fail' = Fail(e, rx_reads + 1)
    /\ IF rd_fail = NoFail THEN UNCHANGED taskVars ELSE Returned("read_err")
    /\ UNCHANGED << ntb, ntb_index, rx_pos, rx_reads, wcVars >>
    /\ UNCHANGED << txVars, hostVars, linkVars >>

\* The pending endpoint read fails (the endpoint is disabled, or the packet
\* does not fit the rest of the buffer) with error e: `?` returns Err(e).
EpReadErr(e) ==
    /\ rx_pc = "reading"
    /\ rx_pc' = "idle"
    /\ rx_res' = ErrResult
    /\ rx_err' = e
    /\ rd_fail' = Fail(e, rx_reads + 1)
    /\ Returned("read_err")
    /\ UNCHANGED << ntb, ntb_index, rx_pos, rx_reads, wcVars >>
    /\ UNCHANGED << txVars, hostVars, linkVars >>

(***************************************************************************)
(* Receiver::wait_connection                                               *)
(***************************************************************************)
Event(ev) == [ev |-> ev, t |-> now]

\* The 8 bytes of `buf`, for data interface number ifn.
Notification(ifn) == << 161, 0, 1, 0, ifn, 0, 0, 0 >>

\* What read_ep.wait_enabled() waits for: the data interface, which owns the
\* endpoint, is active (its alternate setting is the enabled one).
DataInterfaceActive == enabled

\* Entry of wait_connection, on a Receiver no call is running on: the call
\* is left pending in read_ep.wait_enabled().
WaitConnectionStart ==
    /\ wc_pc = "idle"
    /\ rx_pc = "idle"
    /\ wc_pc' = "wait_enabled"
    /\ wc_trace' = << >>
    /\ UNCHANGED << data_if, wc_deadline, notifs, now >>
    /\ UNCHANGED << ntb, ntb_index, rx_pc, rx_pos, rx_reads, rx_res, rx_err, rd_fail, taskVars >>
    /\ UNCHANGED << txVars, hostVars, linkVars >>

\* Mutant: the settle delay is Duration::from_secs(0).
WaitEnabledDoneNoDelay ==
    /\ wc_pc = "wait_enabled"
    /\ DataInterfaceActive
    /\ wc_pc' = "timer"
    /\ wc_deadline' = now
    /\ wc_trace' = Append(wc_trace, Event("enabled"))
    /\ UNCHANGED << data_if, notifs, now >>
    /\ UNCHANGED << ntb, ntb_index, rx_pc, rx_pos, rx_reads, rx_res, rx_err, rd_fail, taskVars >>
    /\ UNCHANGED << txVars, hostVars, linkVars >>

\* wait_enabled() completes, the data interface being active; the call
\* starts Timer::after(Duration::from_secs(1)) and is left pending in it.
WaitEnabledDone ==
    /\ wc_pc = "wait_enabled"
    /\ DataInterfaceActive
    /\ wc_pc' = "timer"
    /\ wc_deadline' = now + SETTLE_SECS
    /\ wc_trace' = Append(wc_trace, Event("enabled"))
    /\ UNCHANGED << data_if, notifs, now >>
    /\ UNCHANGED << ntb, ntb_index, rx_pc, rx_pos, rx_reads, rx_res, rx_err, rd_fail, taskVars >>
    /\ UNCHANGED << txVars, hostVars, linkVars >>

\* The Timer has expired; the call builds `buf` and is left pending in
\* comm_ep.write(&buf).
TimerDone ==
    /\ wc_pc = "timer"
    /\ now >= wc_deadline
    /\ wc_pc' = "writing"
    /\ wc_trace' = Append(wc_trace, Event("elapsed"))
    /\ UNCHANGED << data_if, wc_deadline, notifs, now >>
    /\ UNCHANGED << ntb, ntb_index, rx_pc, rx_pos, rx_reads, rx_res, rx_err, rd_fail, taskVars >>
    /\ UNCHANGED << txVars, hostVars, linkVars >>

\* comm_ep.write completes Ok: the notification is on the interrupt
\* endpoint, unwrap() yields () and wait_connection returns.
NotifWriteOk ==
    /\ wc_pc = "writing"
    /\ wc_pc' = "idle"
    /\ notifs' = Append(notifs, Notification(data_if))
    /\ wc_trace' = Append(wc_trace, Event("written"))
    /\ UNCHANGED << data_if, wc_deadline, now >>
    /\ Returned("connected")
    /\ UNCHANGED << ntb, ntb_index, rx_pc, rx_pos, rx_reads, rx_res, rx_err, rd_fail >>
    /\ UNCHANGED << txVars, hostVars, linkVars >>

\* Mutant: a failed notification write is issued again.
NotifWriteErrRetry(e) ==
    /\ wc_pc = "writing"
    /\ Len(wc_trace) < 4
    /\ wc_pc' = "writing"
    /\ wc_trace' = Append(wc_trace, Event("failed"))
    /\ UNCHANGED << data_if, wc_deadline, notifs, now >>
    /\ UNCHANGED << ntb, ntb_index, rx_pc, rx_pos, rx_reads, rx_res, rx_err, rd_fail, taskVars >>
    /\ UNCHANGED << txVars, hostVars, linkVars >>

\* comm_ep.write fails with error e: unwrap() panics.
NotifWriteErr(e) ==
    /\ wc_pc = "writing"
    /\ wc_pc' = "panicked"
    /\ wc_trace' = Append(wc_trace, Event("failed"))
    /\ UNCHANGED << data_if, wc_deadline, notifs, now >>
    /\ Returned("panic")
    /\ UNCHANGED << ntb, ntb_index, rx_pc, rx_pos, rx_reads, rx_res, rx_err, rd_fail >>
    /\ UNCHANGED << txVars, hostVars, linkVars >>

\* A second passes.
Tick ==
    /\ now < MaxTime
    /\ now' = now + 1
    /\ UNCHANGED << data_if, wc_pc, wc_deadline, wc_trace, notifs >>
    /\ UNCHANGED << ntb, ntb_index, rx_pc, rx_pos, rx_reads, rx_res, rx_err, rd_fail, taskVars >>
    /\ UNCHANGED << txVars, hostVars, linkVars >>

(***************************************************************************)
(* The host.                                                               *)
(***************************************************************************)
\* A bulk transfer of bytes b in packets of m bytes: a transfer ends with a
\* short packet, a zero-length one when m divides the length.
HostPackets(b, m) ==
    Chunks(b, m) \o (IF Len(b) % m = 0 THEN << << >> >> ELSE << >>)

\* A 12-byte NTH.
Nth(s, total, first) ==
    LE32(NTH_SIG) \o LE16(NTH_LEN) \o LE16(s) \o LE16(total) \o LE16(first)

\* A 16-byte NDP with one datagram entry and the zero terminator.
Ndp(next, datagram_index, datagram_len) ==
    LE32(NDP_SIG) \o LE16(NDP_LEN) \o LE16(next) \o LE16(datagram_index) \o LE16(datagram_len)
    \o LE16(0) \o LE16(0)

\* One NTB with a chain of two NDPs, for datagrams d1 and d2:
\* NTH at 0, NDP 1 at 12, NDP 2 at 28, d1 at 44, d2 after it.
ChainNtb(d1, d2) ==
    Nth(0, 44 + Len(d1) + Len(d2), 12)
    \o Ndp(28, 44, Len(d1))
    \o Ndp(0, 44 + Len(d1), Len(d2))
    \o d1 \o d2

\* An NTB as the Sender lays it out, for one datagram.
SingleNtb(d) == NtbOutHeader(0, Len(d)) \o d

\* The NTB for datagram d of a host whose NTH signature is the u32
\* 0x4E434D48 in little-endian order: the bytes 48 4D 43 4E.
SwappedSigNtb(d) == LE32(1313033544) \o SubSeq(SingleNtb(d), 5, Len(SingleNtb(d)))

\* b with its first byte changed: the NTH signature no longer matches.
BadSig(b) == [i \in 1..Len(b) |-> IF i = 1 THEN (b[1] + 1) % 256 ELSE b[i]]

\* An NTB for one datagram whose NTH gives 0 as the offset of the first NDP.
ZeroFirstNtb(d) == Nth(0, OUT_HEADER_LEN + Len(d), 0) \o Ndp(0, OUT_HEADER_LEN, Len(d)) \o d

\* An NTB for one datagram whose only NDP, at offset 12, names itself as the
\* next NDP.
CyclicNtb(d) == Nth(0, OUT_HEADER_LEN + Len(d), NTH_LEN) \o Ndp(NTH_LEN, OUT_HEADER_LEN, Len(d)) \o d

\* An NTB for one datagram whose two NDPs, at offsets 12 and 28, name each
\* other as the next NDP.
TwoCycleNtb(d) ==
    Nth(0, 44 + Len(d), 12) \o Ndp(28, 44, Len(d)) \o Ndp(12, 44, Len(d)) \o d

\* An NTB of the bytes of SingleNtb(d) whose NDP gives the datagram extra
\* bytes more than the NTB holds.
OverreachNtb(d, extra) ==
    Nth(0, OUT_HEADER_LEN + Len(d), NTH_LEN) \o Ndp(0, OUT_HEADER_LEN, Len(d) + extra) \o d

\* One NTB whose single NDP, of 20 bytes at offset 12, lists two datagram
\* entries before the zero terminator: d1 at 32 and d2 after it.
TwoEntryNtb(d1, d2) ==
    Nth(0, 32 + Len(d1) + Len(d2), NTH_LEN)
    \o LE32(NDP_SIG) \o LE16(20) \o LE16(0)
    \o LE16(32) \o LE16(Len(d1)) \o LE16(32 + Len(d1)) \o LE16(Len(d2))
    \o LE16(0) \o LE16(0)
    \o d1 \o d2

ChainNtbs == { ChainNtb(Datagram(5), Datagram(9)), ChainNtb(Datagram(30), Datagram(70)) }

GoodNtbs == { SingleNtb(Datagram(7)), SingleNtb(Datagram(36)) } \cup ChainNtbs

BadSigNtbs == { BadSig(b) : b \in GoodNtbs }

ZeroFirstNtbs == { ZeroFirstNtb(Datagram(7)), ZeroFirstNtb(Datagram(100)) }

HostNtbs == GoodNtbs \cup BadSigNtbs \cup ZeroFirstNtbs

\* The host sends one NTB of its own as one bulk-OUT transfer.
HostSend(b) ==
    /\ rxq = << >>
    /\ rxq' = HostPackets(b, max_packet_size)
    /\ host_sends' = host_sends + 1
    /\ UNCHANGED << max_packet_size, loop_log, delivered >>
    /\ UNCHANGED << txVars, rxVars, linkVars >>

(***************************************************************************)
(* Control handlers: CommControl and DataControl on ControlShared.          *)
(***************************************************************************)
NoCall == [h |-> "none", arg |-> 0, resp |-> "none", data |-> << >>]

\* An AtomicWaker no task has registered in: AtomicWaker::new().
NoWaiter == "none"

\* self.shared.enabled.store(v, Ordering::SeqCst)
StoreOp(v) == [op |-> "store", arg |-> IF v THEN "true" ELSE "false", woke |-> NoWaiter]

\* self.shared.<w>_waker.wake(), which takes the registered task t out of
\* the waker and wakes it.
WakeOp(w, t) == [op |-> "wake", arg |-> w, woke |-> t]

Call(h, arg, resp, data) == [h |-> h, arg |-> arg, resp |-> resp, data |-> data]

\* A control request's u8 request code.
RequestCodes == 0..255

\* Mutant: reset clears the flag and wakes only the rx waker.
CommResetRxOnly ==
    /\ rx_wakes < MaxWakes /\ tx_wakes < MaxWakes
    /\ enabled' = FALSE
    /\ rx_wakes' = rx_wakes + 1
    /\ tx_wakes' = tx_wakes
    /\ rx_waker' = NoWaiter
    /\ tx_waker' = tx_waker
    /\ ctl_ops' = << StoreOp(enabled'), WakeOp("rx", rx_waker) >>
    /\ ctl_last' = Call("CommControl.reset", 0, "none", << >>)
    /\ UNCHANGED << txVars, rxVars, hostVars >>

\* Mutant: reset wakes the wakers before it stores the flag.
CommResetWakeFirst ==
    /\ rx_wakes < MaxWakes /\ tx_wakes < MaxWakes
    /\ enabled' = FALSE
    /\ rx_wakes' = rx_wakes + 1
    /\ tx_wakes' = tx_wakes + 1
    /\ rx_waker' = NoWaiter
    /\ tx_waker' = NoWaiter
    /\ ctl_ops' = << WakeOp("rx", rx_waker), WakeOp("tx", tx_waker), StoreOp(enabled') >>
    /\ ctl_last' = Call("CommControl.reset", 0, "none", << >>)
    /\ UNCHANGED << txVars, rxVars, hostVars >>

\* CommControl::reset
CommReset ==
    /\ rx_wakes < MaxWakes /\ tx_wakes < MaxWakes
    /\ enabled' = FALSE
    /\ rx_wakes' = rx_wakes + 1
    /\ tx_wakes' = tx_wakes + 1
    /\ rx_waker' = NoWaiter
    /\ tx_waker' = NoWaiter
    /\ ctl_ops' = << StoreOp(enabled'), WakeOp("rx", rx_waker), WakeOp("tx", tx_waker) >>
    /\ ctl_last' = Call("CommControl.reset", 0, "none", << >>)
    /\ UNCHANGED << txVars, rxVars, hostVars >>

\* DataControl does not override reset: the handler's default, which does
\* nothing.
DataReset ==
    /\ ctl_last' = Call("DataControl.reset", 0, "none", << >>)
    /\ ctl_ops' = << >>
    /\ UNCHANGED << enabled, rx_wakes, tx_wakes, rx_waker, tx_waker >>
    /\ UNCHANGED << txVars, rxVars, hostVars >>

\* Mutant: the flag, once set, is kept by a later alternate setting.
SetAlternateSettingSticky(alternate_setting) ==
    /\ rx_wakes < MaxWakes /\ tx_wakes < MaxWakes
    /\ alternate_setting \in {ALTERNATE_SETTING_DISABLED, ALTERNATE_SETTING_ENABLED}
    /\ enabled' = (enabled \/ alternate_setting = ALTERNATE_SETTING_ENABLED)
    /\ rx_wakes' = rx_wakes + 1
    /\ tx_wakes' = tx_wakes + 1
    /\ rx_waker' = NoWaiter
    /\ tx_waker' = NoWaiter
    /\ ctl_ops' = << StoreOp(enabled'), WakeOp("rx", rx_waker), WakeOp("tx", tx_waker) >>
    /\ ctl_last' = Call("DataControl.set_alternate_setting", alternate_setting, "none", << >>)
    /\ UNCHANGED << txVars, rxVars, hostVars >>

\* Mutant: the wakers are woken only when the flag changes.
SetAlternateSettingWakeOnChange(alternate_setting) ==
    /\ rx_wakes < MaxWakes /\ tx_wakes < MaxWakes
    /\ alternate_setting \in {ALTERNATE_SETTING_DISABLED, ALTERNATE_SETTING_ENABLED}
    /\ enabled' = (alternate_setting = ALTERNATE_SETTING_ENABLED)
    /\ rx_wakes' = IF enabled' # enabled THEN rx_wakes + 1 ELSE rx_wakes
    /\ tx_wakes' = IF enabled' # enabled THEN tx_wakes + 1 ELSE tx_wakes
    /\ rx_waker' = IF enabled' # enabled THEN NoWaiter ELSE rx_waker
    /\ tx_waker' = IF enabled' # enabled THEN NoWaiter ELSE tx_waker
    /\ ctl_ops' = IF enabled' # enabled
                  THEN << StoreOp(enabled'), WakeOp("rx", rx_waker), WakeOp("tx", tx_waker) >>
                  ELSE << StoreOp(enabled') >>
    /\ ctl_last' = Call("DataControl.set_alternate_setting", alternate_setting, "none", << >>)
    /\ UNCHANGED << txVars, rxVars, hostVars >>

\* DataControl::set_alternate_setting(alternate_setting), for the two
\* alternate settings the data interface has.
SetAlternateSetting(alternate_setting) ==
    /\ rx_wakes < MaxWakes /\ tx_wakes < MaxWakes
    /\ alternate_setting \in {ALTERNATE_SETTING_DISABLED, ALTERNATE_SETTING_ENABLED}
    /\ enabled' = (alternate_setting = ALTERNATE_SETTING_ENABLED)
    /\ rx_wakes' = rx_wakes + 1
    /\ tx_wakes' = tx_wakes + 1
    /\ rx_waker' = NoWaiter
    /\ tx_waker' = NoWaiter
    /\ ctl_ops' = << StoreOp(enabled'), WakeOp("rx", rx_waker), WakeOp("tx", tx_waker) >>
    /\ ctl_last' = Call("DataControl.set_alternate_setting", alternate_setting, "none", << >>)
    /\ UNCHANGED << txVars, rxVars, hostVars >>

\* Mutant: "set NTB input size" falls to the default arm.
OutResponseNoInputSize(req) ==
    IF req = REQ_SEND_ENCAPSULATED_COMMAND THEN "Accepted" ELSE "Rejected"

\* CommControl::control_out: the OutResponse for request code req.
OutResponse(req) ==
    IF req = REQ_SEND_ENCAPSULATED_COMMAND THEN "Accepted"
    ELSE IF req = REQ_SET_NTB_INPUT_SIZE THEN "Accepted"
    ELSE "Rejected"

\* Mutant: an accepted request also brings the link up.
ControlOutEnables(req) ==
    /\ ctl_last' = Call("CommControl.control_out", req, OutResponse(req), << >>)
    /\ ctl_ops' = << >>
    /\ enabled' = (enabled \/ OutResponse(req) = "Accepted")
    /\ UNCHANGED << rx_wakes, tx_wakes, rx_waker, tx_waker >>
    /\ UNCHANGED << txVars, rxVars, hostVars >>

ControlOut(req) ==
    /\ ctl_last' = Call("CommControl.control_out", req, OutResponse(req), << >>)
    /\ ctl_ops' = << >>
    /\ UNCHANGED << enabled, rx_wakes, tx_wakes, rx_waker, tx_waker >>
    /\ UNCHANGED << txVars, rxVars, hostVars >>

\* byteify(NtbParametersDir { .. }): 12 bytes.
NtbParametersDir(max_size, divisor, payload_remainder, out_alignment, max_datagram_count) ==
    LE32(max_size) \o LE16(divisor) \o LE16(payload_remainder) \o LE16(out_alignment)
    \o LE16(max_datagram_count)

\* Mutant: the two directions are exchanged.
NtbParametersSwapped ==
    LE16(2 + 2 + 12 + 12) \o LE16(1)
    \o NtbParametersDir(NTB_MAX_SIZE, 4, 0, 4, 20)
    \o NtbParametersDir(NTB_MAX_SIZE, 4, 0, 4, 0)

\* byteify(NtbParameters { .. }) of control_in; size_of::<NtbParameters>()
\* is 2 + 2 + 12 + 12 for the packed struct.
NtbParameters ==
    LE16(2 + 2 + 12 + 12) \o LE16(1)
    \o NtbParametersDir(NTB_MAX_SIZE, 4, 0, 4, 0)
    \o NtbParametersDir(NTB_MAX_SIZE, 4, 0, 4, 20)

\* Mutant: only the first 12 bytes of the structure are returned.
InResponseTruncated(req) ==
    IF req = REQ_GET_NTB_PARAMETERS
    THEN [resp |-> "Accepted", data |-> SubSeq(NtbParameters, 1, 12)]
    ELSE [resp |-> "Rejected", data |-> << >>]

\* CommControl::control_in: the InResponse for request code req.
InResponse(req) ==
    IF req = REQ_GET_NTB_PARAMETERS
    THEN [resp |-> "Accepted", data |-> NtbParameters]
    ELSE [resp |-> "Rejected", data |-> << >>]

ControlIn(req) ==
    /\ ctl_last' = Call("CommControl.control_in", req, InResponse(req).resp, InResponse(req).data)
    /\ ctl_ops' = << >>
    /\ UNCHANGED << enabled, rx_wakes, tx_wakes, rx_waker, tx_waker >>
    /\ UNCHANGED << txVars, rxVars, hostVars >>

(***************************************************************************)
(* Specifications.                                                         *)
(***************************************************************************)
\* split() and State::new(): the state that does not depend on the
\* arguments of CdcNcmClass::new nor on who drives the Receiver.
InitState ==
    /\ seq = 0
    /\ tx_pc = "idle"
    /\ tx_data = << >>
    /\ tx_header = << >>
    /\ tx_sent = << >>
    /\ tx_res = "none"
    /\ tx_err = "none"
    /\ wr_fail = NoFail
    /\ ntb = << >>
    /\ ntb_index = 0
    /\ rx_pc = "idle"
    /\ rx_pos = 0
    /\ rx_reads = 0
    /\ rx_res = NoResult
    /\ rx_err = "none"
    /\ rd_fail = NoFail
    /\ rxq = << >>
    /\ host_sends = 0
    /\ loop_log = << >>
    /\ delivered = << >>
    /\ enabled = FALSE
    /\ rx_wakes = 0
    /\ tx_wakes = 0
    /\ rx_waker = NoWaiter
    /\ tx_waker = NoWaiter
    /\ ctl_ops = << >>
    /\ ctl_last = NoCall
    /\ wc_pc = "idle"
    /\ wc_deadline = 0
    /\ wc_trace = << >>
    /\ task_log = << >>
    /\ notifs = << >>
    /\ now = 0

\* The Sender and the Receiver are driven call by call.
InitClass == InitState /\ task_pc = "none"

\* CdcNcmClass::new(.., 64); the number of the data interface is left to
\* the device the class is built into.
InitDevice == InitClass /\ max_packet_size = 64

\* The device of the example: the NCM function is its only one, the comm
\* interface is number 0 and the data interface number 1.
Init == InitDevice /\ data_if = 1

\* The Sender against a host that takes every packet.
TxCall == seq < MaxWrites /\ \E d \in Datagrams : WriteStart(d)

\* An endpoint write fails, with any of the errors.
WriteErr == \E e \in EndpointErrors : EpWriteErr(e)

NextTx == TxCall \/ EpWriteOk(FALSE) \/ WriteErr

SpecTx == Init /\ [][NextTx]_vars

\* The Sender on a device built with any of the max_packet_size values
\* CdcNcmClass::new documents for full-speed devices.
PacketSizes == { 8, 16, 32, 64 }

InitMps == InitClass /\ data_if = 1 /\ max_packet_size \in PacketSizes

SpecMps == InitMps /\ [][NextTx]_vars

\* The Receiver against a host that sends NTBs of its own.
HostCall == host_sends < MaxHostSends /\ \E b \in HostNtbs : HostSend(b)

\* An endpoint read fails, with any of the errors.
ReadErr == \E e \in EndpointErrors : EpReadErr(e)

NextRx == HostCall \/ ReadStart \/ EpReadOk \/ ReadErr

SpecRx == Init /\ [][NextRx]_vars

\* The Receiver on a device built with any of the documented packet sizes,
\* against a host that sends an NTB that ends on a packet boundary, one that
\* does not, and one with a chain of two NDPs.
MpsNtbs == { SingleNtb(Datagram(36)), SingleNtb(Datagram(7)), ChainNtb(Datagram(5), Datagram(9)) }

MpsHostCall == host_sends < MaxMpsSends /\ \E b \in MpsNtbs : HostSend(b)

NextRxMps == MpsHostCall \/ ReadStart \/ EpReadOk \/ ReadErr

SpecRxMps == InitMps /\ [][NextRxMps]_vars

\* Sender and Receiver against a host that sends back what it receives.
LoopCall == seq < MaxLoopWrites /\ \E d \in LoopDatagrams : WriteStart(d)

NextLoop == LoopCall \/ EpWriteOk(TRUE) \/ ReadStart \/ EpReadOk

SpecLoop == Init /\ [][NextLoop]_vars

\* The Sender, with every endpoint write free to fail, against a host that
\* keeps the packets it is sent: rxq is the stream of packets delivered.
StreamDatagrams == { Datagram(0), Datagram(36), Datagram(100) }

StreamTxCall == seq < MaxStreamWrites /\ \E d \in StreamDatagrams : WriteStart(d)

NextStream == StreamTxCall \/ EpWriteOk(TRUE) \/ WriteErr

SpecStream == Init /\ [][NextStream]_vars

\* Sender and Receiver side by side, each against its own endpoint, with
\* every endpoint operation free to fail: a datagram of three packets is
\* sent, and the host sends an NTB of three packets.
IoDatagram == Datagram(100)

IoTxCall == seq < MaxIoCalls /\ WriteStart(IoDatagram)

IoNtbs == { SingleNtb(IoDatagram), SwappedSigNtb(IoDatagram) }

IoHostCall == host_sends < MaxIoCalls /\ \E b \in IoNtbs : HostSend(b)

NextIo ==
    IoTxCall \/ EpWriteOk(FALSE) \/ WriteErr \/ IoHostCall \/ ReadStart \/ EpReadOk \/ ReadErr

SpecIo == Init /\ [][NextIo]_vars

\* The Sender alone over the whole range of its sequence counter.
SeqDatagrams == { Datagram(0), Datagram(36) }

SeqCall == \E d \in SeqDatagrams : WriteStart(d)

NextSeq == SeqCall \/ EpWriteOk(FALSE) \/ EpWriteErr("Disabled")

SpecSeq == Init /\ [][NextSeq]_vars

\* The control handlers as the USB stack calls them.
SetAltCall == \E a \in {ALTERNATE_SETTING_DISABLED, ALTERNATE_SETTING_ENABLED} : SetAlternateSetting(a)

ControlOutCall == \E req \in RequestCodes : ControlOut(req)

ControlInCall == \E req \in RequestCodes : ControlIn(req)

NextCtl == CommReset \/ DataReset \/ SetAltCall \/ ControlOutCall \/ ControlInCall

SpecCtl == Init /\ [][NextCtl]_vars

\* wait_connection as the receive task calls it, on a device whose data
\* interface has one of these numbers, while the host changes the alternate
\* setting and resets the bus.
DataIfs == { 1, 3 }

InitWc == InitDevice /\ data_if \in DataIfs

WcCall == Len(notifs) < MaxNotifs /\ WaitConnectionStart

NotifErr == \E e \in EndpointErrors : NotifWriteErr(e)

NextWc ==
    \/ WcCall \/ WaitEnabledDone \/ TimerDone \/ NotifWriteOk \/ NotifErr \/ Tick
    \/ SetAltCall \/ CommReset

SpecWc == InitWc /\ [][NextWc]_vars

\* The whole device: the send task, the receive task with wait_connection
\* and the control handlers side by side, on the smallest inputs: an empty
\* datagram, an NTB of one packet, and one request code of each answer.
DevRequestCodes == { REQ_SEND_ENCAPSULATED_COMMAND, REQ_GET_NTB_PARAMETERS }

DevTxCall == seq < MaxDevCalls /\ WriteStart(Datagram(0))

DevHostCall == host_sends < MaxDevCalls /\ HostSend(SingleNtb(Datagram(7)))

DevWcCall == Len(notifs) < MaxDevCalls /\ WaitConnectionStart

DevTick == now < MaxDevTime /\ Tick

DevLinkCall == rx_wakes < MaxDevWakes /\ (CommReset \/ SetAltCall)

DevControlCall ==
    \/ DataReset
    \/ \E req \in DevRequestCodes : ControlOut(req)
    \/ \E req \in DevRequestCodes : ControlIn(req)

NextDev ==
    \/ DevTxCall \/ EpWriteOk(FALSE) \/ WriteErr
    \/ DevHostCall \/ ReadStart \/ EpReadOk \/ ReadErr
    \/ DevWcCall \/ WaitEnabledDone \/ TimerDone \/ NotifWriteOk \/ NotifErr \/ DevTick
    \/ DevLinkCall \/ DevControlCall

SpecDev == Init /\ [][NextDev]_vars

\* The Sender on the datagrams around the largest whose NTB length fits the
\* u16 field nth_total_len: 65507 + 28 = 65535.
BigLens == { U16_MOD - 1 - OUT_HEADER_LEN, U16_MOD - OUT_HEADER_LEN }

BigTxCall == seq < MaxBigWrites /\ \E L \in BigLens : WriteStart(Datagram(L))

NextBig == BigTxCall \/ EpWriteOk(FALSE) \/ WriteErr

SpecBig == Init /\ [][NextBig]_vars

\* The Receiver, for each endpoint size, against a host whose transfers
\* fill the accumulation buffer: one packet short of it, exactly, and beyond
\* it.  The endpoint read fails when the packet does not fit the slice it is
\* given.
FillNtbs ==
    { SingleNtb(Datagram(NTB_MAX_SIZE - OUT_HEADER_LEN - 1)),
      SingleNtb(Datagram(NTB_MAX_SIZE - OUT_HEADER_LEN)),
      SingleNtb(Datagram(NTB_MAX_SIZE - OUT_HEADER_LEN + 100)) }

FillHostCall == host_sends < MaxFillSends /\ \E b \in FillNtbs : HostSend(b)

FillReadErr ==
    /\ rxq # << >>
    /\ Len(Head(rxq)) > NTB_MAX_SIZE - rx_pos
    /\ EpReadErr("BufferOverflow")

NextFill == FillHostCall \/ ReadStart \/ EpReadOk \/ FillReadErr

SpecFill == InitMps /\ [][NextFill]_vars

\* The Receiver against a host that sends NTBs of different lengths, one of
\* them with a datagram entry that reaches past its end.
StaleNtbs ==
    { SingleNtb(Datagram(36)), SingleNtb(Datagram(7)), ChainNtb(Datagram(5), Datagram(9)),
      OverreachNtb(Datagram(7), 20) }

StaleHostCall == host_sends < MaxStaleSends /\ \E b \in StaleNtbs : HostSend(b)

NextStale == StaleHostCall \/ ReadStart \/ EpReadOk \/ ReadErr

SpecStale == Init /\ [][NextStale]_vars

\* The Receiver, with no endpoint errors, against a host whose well-formed
\* NTBs hold one datagram, two datagrams in two chained NDPs, and two
\* datagrams in the two entries of one NDP.
EntriesNtbs ==
    { SingleNtb(Datagram(7)), SingleNtb(Datagram(36)), ChainNtb(Datagram(5), Datagram(9)),
      TwoEntryNtb(Datagram(5), Datagram(9)), TwoEntryNtb(Datagram(30), Datagram(70)) }

EntriesHostCall == host_sends < MaxEntriesSends /\ \E b \in EntriesNtbs : HostSend(b)

NextEntries == EntriesHostCall \/ ReadStart \/ EpReadOk

SpecEntries == Init /\ [][NextEntries]_vars

\* The Receiver against a host whose NTBs hold NDP chains, with and without
\* an end.
CyclicNtbs ==
    { SingleNtb(Datagram(7)), ChainNtb(Datagram(5), Datagram(9)),
      CyclicNtb(Datagram(7)), TwoCycleNtb(Datagram(3)) }

ChainHostCall == host_sends < MaxChainSends /\ \E b \in CyclicNtbs : HostSend(b)

ChainReadCall == Len(delivered) < MaxChainReads /\ ReadStart

NextChain == ChainHostCall \/ ChainReadCall \/ EpReadOk \/ ReadErr

SpecChain == Init /\ [][NextChain]_vars

\* usb_ncm_rx_task of the example on its Receiver: wait_connection, then
\* read_packet until it returns an error, then wait_connection again.
InitTask == InitState /\ max_packet_size = 64 /\ data_if = 1 /\ task_pc = "connect"

TaskCall ==
    \/ task_pc = "connect" /\ Len(notifs) < MaxNotifs /\ WaitConnectionStart
    \/ task_pc = "connected" /\ ReadStart

TaskNtbs ==
    { SingleNtb(Datagram(7)), SingleNtb(Datagram(36)), ChainNtb(Datagram(5), Datagram(9)) }

TaskHostCall == host_sends < MaxTaskSends /\ \E b \in TaskNtbs : HostSend(b)

TaskTick == now < MaxTaskTime /\ Tick

TaskLinkCall == rx_wakes < MaxTaskWakes /\ SetAltCall

NextTask ==
    \/ TaskCall \/ TaskHostCall \/ EpReadOk \/ ReadErr
    \/ WaitEnabledDone \/ TimerDone \/ NotifWriteOk \/ NotifErr \/ TaskTick
    \/ TaskLinkCall

SpecTask == InitTask /\ [][NextTask]_vars

(***************************************************************************)
(* Properties.                                                             *)
(***************************************************************************)
\* The lengths of a sequence of packets.
PacketLens(ps) == [i \in 1..Len(ps) |-> Len(ps[i])]

\* write_packet has returned Ok(()).
TxOk == tx_pc = "idle" /\ tx_res = "Ok"

\* The nth_seq field (bytes 6..8) of a 28-byte header.
HdrSeq(h) == h[7] + 256 * h[8]

\* C1: Round trip.  Through the loopback, the datagrams read_packet returns
\* are, in order and byte for byte, the datagrams whose write_packet
\* returned Ok, each returned as Ok(L) with L its length; the Receiver never
\* panics, and once the Sender is idle and every packet has been read, every
\* datagram sent has been returned and the reader waits at the start of a
\* fresh NTB.
C1_RoundTrip ==
    /\ rx_pc # "panicked"
    /\ Len(delivered) <= Len(loop_log)
    /\ \A i \in 1..Len(delivered) : delivered[i] = loop_log[i]
    /\ (rx_pc = "idle" /\ rx_res.kind = "Ok") =>
          /\ rx_res.n = Len(loop_log[Len(delivered)])
          /\ rx_res.buf = loop_log[Len(delivered)]
    /\ (tx_pc = "idle" /\ rxq = << >> /\ rx_pc = "reading") =>
          /\ rx_pos = 0
          /\ Len(delivered) = Len(loop_log)

\* The largest datagram (1572 bytes, an NTB of 1600) came back whole, and a
\* second datagram after it.
C1_Witness ==
    /\ Len(delivered) = 2
    /\ Len(delivered[1]) = 1572
    /\ delivered[1] = Datagram(1572)
    /\ delivered = loop_log
    /\ rx_res.kind = "Ok"

\* C2: Fragmentation.  When write_packet has returned Ok for a datagram with
\* 28 + L >= 64, its first packet is 64 bytes, the header followed by the
\* first 36 datagram bytes; the packets after it hold the remaining L - 36
\* bytes in order, every packet but the last being 64 bytes; all packets
\* together are header ++ datagram; L = 100 gives packets of 64, 64 and 0.
C2_Fragmentation ==
    (TxOk /\ 28 + Len(tx_data) >= 64) =>
        /\ Len(tx_sent) >= 2
        /\ Len(tx_sent[1]) = 64
        /\ SubSeq(tx_sent[1], 1, 28) = tx_header
        /\ SubSeq(tx_sent[1], 29, 64) = SubSeq(tx_data, 1, 36)
        /\ \A i \in 1..(Len(tx_sent) - 1) : Len(tx_sent[i]) = 64
        /\ Flatten(Tail(tx_sent)) = SubSeq(tx_data, 37, Len(tx_data))
        /\ Flatten(tx_sent) = tx_header \o tx_data
        /\ (Len(tx_data) = 100 => PacketLens(tx_sent) = << 64, 64, 0 >>)

\* A 100-byte datagram was sent as packets of 64, 64 and 0 bytes.
C2_Witness ==
    /\ TxOk
    /\ Len(tx_data) = 100
    /\ PacketLens(tx_sent) = << 64, 64, 0 >>

\* C3: Short-packet termination.  While a call writes, every packet written
\* so far is 64 bytes; when it has returned Ok the packets are zero or more
\* of 64 bytes and then exactly one shorter one, and a zero-length packet is
\* among them exactly when the first packet is full and the L - 36 bytes
\* after it are a multiple of 64.
C3_ShortPacketEnds ==
    /\ tx_pc = "writing" => \A i \in 1..Len(tx_sent) : Len(tx_sent[i]) = 64
    /\ TxOk =>
          /\ Len(tx_sent) >= 1
          /\ \A i \in 1..(Len(tx_sent) - 1) : Len(tx_sent[i]) = 64
          /\ Len(tx_sent[Len(tx_sent)]) < 64
          /\ (\E i \in 1..Len(tx_sent) : Len(tx_sent[i]) = 0)
                <=> (28 + Len(tx_data) >= 64 /\ (Len(tx_data) - 36) % 64 = 0)

\* The 1572-byte datagram went out as 25 full packets and a zero-length one.
C3_Witness ==
    /\ TxOk
    /\ Len(tx_data) = 1572
    /\ Len(tx_sent) = 26
    /\ tx_sent[26] = << >>

\* C4: Short frame, no ZLP.  For 28 + L < 64 a call that has returned made
\* exactly one endpoint write; when it returned Ok the one packet is the
\* header followed by the whole datagram, 28 + L bytes, and no zero-length
\* packet was written; L = 30 gives one packet of 58 bytes.
C4_ShortFrame ==
    (tx_header # << >> /\ 28 + Len(tx_data) < 64) =>
        /\ Len(tx_sent) <= 1
        /\ tx_pc = "writing" => tx_sent = << >>
        /\ (tx_pc = "idle" /\ tx_res = "Err") => tx_sent = << >>
        /\ TxOk =>
              /\ tx_sent = << tx_header \o tx_data >>
              /\ Len(tx_sent[1]) = 28 + Len(tx_data)
              /\ (Len(tx_data) = 30 => PacketLens(tx_sent) = << 58 >>)

\* A 30-byte datagram was sent as one packet of 58 bytes.
C4_Witness ==
    /\ TxOk
    /\ Len(tx_data) = 30
    /\ PacketLens(tx_sent) = << 58 >>

\* C5: Sequence monotonicity.  The header built by the first write_packet
\* call carries sequence 0, and the header built by every later call carries
\* the previous call's sequence plus 1 modulo 65536.
C5_SeqMonotone ==
    [][ (tx_pc = "idle" /\ tx_pc' = "writing") =>
            HdrSeq(tx_header') =
                (IF tx_header = << >> THEN 0 ELSE (HdrSeq(tx_header) + 1) % 65536) ]_vars

\* The header carrying 65535 has been built and the counter has wrapped to 0,
\* with a call in progress whose numbering follows it.
C5_Witness ==
    /\ tx_header # << >>
    /\ HdrSeq(tx_header) = 65535
    /\ seq = 0
    /\ tx_pc = "writing"

\* C6: The sequence counter goes up by exactly 1 modulo 65536 at the entry
\* of every write_packet call and is not changed by anything the call does
\* after that, whether it then returns Ok or an EndpointError.
C6_SeqOncePerCall ==
    [][ /\ (tx_pc = "idle" /\ tx_pc' = "writing") => seq' = (seq + 1) % 65536
        /\ tx_pc = "writing" => seq' = seq ]_vars

\* A call that returned an EndpointError after one packet left the counter
\* one past its own number, across the wrap.
C6_Witness ==
    /\ tx_pc = "idle"
    /\ tx_res = "Err"
    /\ Len(tx_sent) = 1
    /\ HdrSeq(tx_header) = 65535
    /\ seq = 0

\* The two-NDP NTB of datagrams d1 and d2 is what the accumulation just read.
ChainRead(d1, d2) ==
    /\ rx_pos = Len(ChainNtb(d1, d2))
    /\ NtbSlice(ntb, 0, rx_pos) = ChainNtb(d1, d2)

ChainPairs == { << Datagram(5), Datagram(9) >>, << Datagram(30), Datagram(70) >> }

\* C7: Multi-datagram chaining.  The call that accumulates an NTB with a
\* chain of two NDPs returns the first datagram and leaves the cursor on the
\* second NDP; the next call returns the second datagram at its entry, with
\* no endpoint read (no packet is taken from the endpoint), and leaves the
\* cursor 0.
C7_Chaining ==
    /\ [](\A p \in ChainPairs :
            (rx_pc = "idle" /\ rx_reads > 0 /\ ChainRead(p[1], p[2])) =>
                /\ rx_res = [kind |-> "Ok", n |-> Len(p[1]), buf |-> p[1]]
                /\ ntb_index = 28)
    /\ [][ \A p \in ChainPairs :
            (/\ rx_pc = "idle" /\ rx_res.kind = "Ok" /\ rx_reads > 0 /\ ChainRead(p[1], p[2])
             /\ << rx_pc, rx_res, rx_reads, ntb_index >>' # << rx_pc, rx_res, rx_reads, ntb_index >>) =>
                /\ rx_res' = [kind |-> "Ok", n |-> Len(p[2]), buf |-> p[2]]
                /\ rx_pc' = "idle"
                /\ rx_reads' = 0
                /\ rxq' = rxq
                /\ ntb_index' = 0
                /\ delivered' = Append(delivered, p[2]) ]_vars

\* Both datagrams of a chained NTB have been returned, the second by a call
\* that read nothing.
C7_Witness ==
    /\ rx_pc = "idle"
    /\ rx_res = [kind |-> "Ok", n |-> 70, buf |-> Datagram(70)]
    /\ rx_reads = 0
    /\ Len(delivered) >= 2
    /\ delivered[Len(delivered) - 1] = Datagram(30)
    /\ delivered[Len(delivered)] = Datagram(70)

\* C8: State-sync wakeup.  Every set_alternate_setting call wakes the rx
\* waker once and the tx waker once, and leaves the flag true for the active
\* setting (1) and false for the default setting (0), whatever the flag was.
C8_SetAltWakes ==
    [][ ctl_last'.h = "DataControl.set_alternate_setting" =>
            /\ rx_wakes' = rx_wakes + 1
            /\ tx_wakes' = tx_wakes + 1
            /\ enabled' = (ctl_last'.arg = 1) ]_vars

\* The default setting was selected while the flag was already false, after
\* an earlier call: both wakers have been woken by both calls.
C8_Witness ==
    /\ ctl_last = Call("DataControl.set_alternate_setting", 0, "none", << >>)
    /\ enabled = FALSE
    /\ rx_wakes = 2
    /\ tx_wakes = 2

\* C9 as claimed: a reset delivered to the Data interface handler forces the
\* flag to false and wakes both wakers.
C9_DataResetDisables ==
    [][ ctl_last'.h = "DataControl.reset" =>
            /\ enabled' = FALSE
            /\ rx_wakes' = rx_wakes + 1
            /\ tx_wakes' = tx_wakes + 1 ]_vars

\* C9: A reset delivered to the Comm interface handler forces the flag to
\* false and wakes the rx waker and the tx waker.
C9_CommResetDisables ==
    [][ ctl_last'.h = "CommControl.reset" =>
            /\ enabled' = FALSE
            /\ rx_wakes' = rx_wakes + 1
            /\ tx_wakes' = tx_wakes + 1 ]_vars

\* The Comm handler was reset after the interface had been enabled.
C9_Witness ==
    /\ ctl_last.h = "CommControl.reset"
    /\ enabled = FALSE
    /\ rx_wakes = 2
    /\ tx_wakes = 2

\* C10: Malformed signature.  Whenever read_packet has returned Ok with a
\* datagram, the buffered NTB starts with the bytes 4E 43 4D 48 of the NTH
\* signature: an NTB that starts otherwise yields no datagram.
C10_BadSigRejected ==
    rx_res.kind = "Ok" => NtbSlice(ntb, 0, 4) = << 78, 67, 77, 72 >>

\* A whole NTB whose signature is wrong in its first byte was accumulated,
\* and the call panicked without returning a datagram.
C10_Witness ==
    /\ rx_pc = "panicked"
    /\ rx_res.kind = "panic"
    /\ NtbSlice(ntb, 0, 4) = << 79, 67, 77, 72 >>
    /\ rx_pos = Len(SingleNtb(Datagram(36)))
    /\ delivered = << >>

\* C11: Zero first-NDP offset.  The call that has accumulated a whole NTB
\* whose NTH gives 0 as the first-NDP offset panics: it returns neither a
\* datagram nor an EndpointError, and its caller gets nothing.  Every call
\* that returns a datagram parsed its NDP at a nonzero cursor: the first-NDP
\* offset of the NTB it accumulated, or the cursor it found at its entry.
C11_ZeroFirstPanics ==
    /\ [][ (/\ rx_pc = "reading" /\ rx_reads' = rx_reads + 1 /\ rx_pc' # "reading"
            /\ NtbU16(ntb', 10) = 0) =>
                /\ rx_pc' = "panicked"
                /\ rx_res'.kind = "panic"
                /\ delivered' = delivered ]_vars
    /\ [][ (/\ rx_res'.kind = "Ok"
            /\ << rx_pc, rx_res, rx_reads, ntb_index >>' # << rx_pc, rx_res, rx_reads, ntb_index >>) =>
                IF rx_pc = "reading" THEN NtbU16(ntb', 10) # 0 ELSE ntb_index # 0 ]_vars

\* A 128-byte NTB with the right signature and a zero first-NDP offset was
\* accumulated in three reads, and the call panicked.
C11_Witness ==
    /\ rx_pc = "panicked"
    /\ rx_res.kind = "panic"
    /\ rx_reads = 3
    /\ NtbSlice(ntb, 0, rx_pos) = ZeroFirstNtb(Datagram(100))
    /\ NtbU16(ntb, 10) = 0
    /\ delivered = << >>

\* C12: Error propagation without retry.  When an endpoint write of a
\* write_packet call has failed, the call has returned Err with the error
\* the endpoint gave, and the packets it wrote are those written before the
\* failing write: nothing was written after it and it was not repeated.
\* When an endpoint read of a read_packet call has failed, the call has
\* returned Err with the error the endpoint gave, and the reads it completed
\* are those before the failing read.
C12_ErrorPropagates ==
    /\ wr_fail # NoFail =>
          /\ tx_pc = "idle"
          /\ tx_res = "Err"
          /\ tx_err = wr_fail.err
          /\ Len(tx_sent) = wr_fail.n - 1
    /\ rd_fail # NoFail =>
          /\ rx_pc = "idle"
          /\ rx_res.kind = "Err"
          /\ rx_err = rd_fail.err
          /\ rx_reads = rd_fail.n - 1

\* The second write of a call failed with Disabled and the third read of a
\* call failed with BufferOverflow: both calls returned those errors.
C12_Witness ==
    /\ wr_fail = Fail("Disabled", 2)
    /\ tx_res = "Err" /\ tx_err = "Disabled" /\ Len(tx_sent) = 1
    /\ rd_fail = Fail("BufferOverflow", 3)
    /\ rx_res.kind = "Err" /\ rx_err = "BufferOverflow" /\ rx_reads = 2

\* C13: Accepted control requests.  The Comm handler answers an OUT request
\* Accepted when its request code is 0x00 or 0x86 and Rejected for every
\* other code; it answers an IN request Accepted when its code is 0x80 and
\* Rejected for every other code.
C13_AcceptedRequests ==
    /\ ctl_last.h = "CommControl.control_out" =>
          ctl_last.resp = (IF ctl_last.arg \in {0, 134} THEN "Accepted" ELSE "Rejected")
    /\ ctl_last.h = "CommControl.control_in" =>
          ctl_last.resp = (IF ctl_last.arg = 128 THEN "Accepted" ELSE "Rejected")

\* The OUT request "set NTB input size" was answered Accepted.
C13_Witness ==
    /\ ctl_last.h = "CommControl.control_out"
    /\ ctl_last.arg = 134
    /\ ctl_last.resp = "Accepted"

\* The little-endian u16 / u32 field at 0-based offset off of bytes b.
FieldU16(b, off) == b[off + 1] + 256 * b[off + 2]

FieldU32(b, off) == FieldU16(b, off) + 65536 * FieldU16(b, off + 2)

\* The last handler call was control_in for "get NTB parameters".
GotNtbParameters == ctl_last.h = "CommControl.control_in" /\ ctl_last.arg = 128

\* C14: NTB parameters.  Every response to "get NTB parameters" carries, for
\* the input direction (at offset 4) and the output direction (at offset
\* 16), max NTB size 1600, divisor 4, payload remainder 0 and alignment 4;
\* the max datagram count is 0 for the input direction and 20 for the
\* output direction.
C14_NtbParameters ==
    GotNtbParameters =>
        /\ ctl_last.resp = "Accepted"
        /\ Len(ctl_last.data) >= 28
        /\ \A dir \in {4, 16} :
              /\ FieldU32(ctl_last.data, dir) = 1600
              /\ FieldU16(ctl_last.data, dir + 4) = 4
              /\ FieldU16(ctl_last.data, dir + 6) = 0
              /\ FieldU16(ctl_last.data, dir + 8) = 4
        /\ FieldU16(ctl_last.data, 4 + 10) = 0
        /\ FieldU16(ctl_last.data, 16 + 10) = 20

\* "Get NTB parameters" was answered a second time, after a reset of the
\* Comm handler, with the output direction advertising 20 datagrams.
C14_Witness ==
    /\ GotNtbParameters
    /\ rx_wakes >= 1
    /\ ctl_last.resp = "Accepted"
    /\ FieldU16(ctl_last.data, 26) = 20

\* C15 as claimed: the response to "get NTB parameters" is 12 bytes long and
\* its length field reports that length.
C15_TwelveBytes ==
    GotNtbParameters =>
        /\ Len(ctl_last.data) = 12
        /\ FieldU16(ctl_last.data, 0) = Len(ctl_last.data)

\* C15: The response to "get NTB parameters" is 28 bytes long (a length, a
\* format mask and two directions of 12 bytes each), and its length field,
\* the u16 at offset 0, reports that length.
C15_TwentyEightBytes ==
    GotNtbParameters =>
        /\ Len(ctl_last.data) = 28
        /\ FieldU16(ctl_last.data, 0) = Len(ctl_last.data)

\* "Get NTB parameters" was answered with 28 bytes whose first two are 28, 0.
C15_Witness ==
    /\ GotNtbParameters
    /\ Len(ctl_last.data) = 28
    /\ SubSeq(ctl_last.data, 1, 2) = << 28, 0 >>

\* C16: Header fields.  For every write_packet call with a datagram of
\* length L <= 1572, the first 28 bytes of the first packet written are a
\* header with NTH length 12 (offset 4), total NTB length L + 28 (offset 8),
\* first-NDP offset 12 (offset 10), NDP length 16 (offset 16), next-NDP
\* offset 0 (offset 18), datagram offset 28 (offset 20), datagram length L
\* (offset 22) and a terminator pair of zeros (offsets 24 and 26).
C16_HeaderFields ==
    (tx_sent # << >> /\ Len(tx_data) <= 1572) =>
        LET h == SubSeq(tx_sent[1], 1, 28)
        IN /\ Len(tx_sent[1]) >= 28
           /\ FieldU16(h, 4) = 12
           /\ FieldU16(h, 8) = Len(tx_data) + 28
           /\ FieldU16(h, 10) = 12
           /\ FieldU16(h, 16) = 16
           /\ FieldU16(h, 18) = 0
           /\ FieldU16(h, 20) = 28
           /\ FieldU16(h, 22) = Len(tx_data)
           /\ FieldU16(h, 24) = 0
           /\ FieldU16(h, 26) = 0

\* The second call sent the largest datagram: its header gives a datagram
\* of 1572 bytes and an NTB of 1600.
C16_Witness ==
    /\ TxOk
    /\ Len(tx_data) = 1572
    /\ FieldU16(tx_sent[1], 6) = 1
    /\ FieldU16(tx_sent[1], 8) = 1600
    /\ FieldU16(tx_sent[1], 22) = 1572

\* C17 as claimed: the encoder puts the u32 0x4E434D48 at NTB bytes 0..4 and
\* the u32 0x4E434D30 at bytes 12..16, and the decoder returns a datagram
\* only from an NTB that starts with the u32 0x4E434D48.
C17_SigsAsClaimed ==
    /\ tx_sent # << >> =>
          /\ SubSeq(tx_sent[1], 1, 4) = << 72, 77, 67, 78 >>
          /\ SubSeq(tx_sent[1], 13, 16) = << 48, 77, 67, 78 >>
    /\ rx_res.kind = "Ok" => NtbSlice(ntb, 0, 4) = << 72, 77, 67, 78 >>

\* C17: Signature constants.  The NTH signature is the u32 0x484D434E: the
\* encoder puts its little-endian bytes 4E 43 4D 48 ("NCMH") at NTB bytes
\* 0..4, and the decoder returns a datagram only from an NTB that starts
\* with these bytes.  The NDP signature is the u32 0x304D434E: the encoder
\* puts its bytes 4E 43 4D 30 ("NCM0") at NTB bytes 12..16.
C17_Signatures ==
    /\ tx_sent # << >> =>
          /\ SubSeq(tx_sent[1], 1, 4) = << 78, 67, 77, 72 >>
          /\ SubSeq(tx_sent[1], 13, 16) = << 78, 67, 77, 48 >>
    /\ rx_res.kind = "Ok" => NtbSlice(ntb, 0, 4) = << 78, 67, 77, 72 >>
    /\ (rx_pc # "reading" /\ rx_reads > 0 /\ rx_res.kind # "Err"
        /\ NtbSlice(ntb, 0, 4) = << 72, 77, 67, 78 >>) => rx_pc = "panicked"

\* The encoder has written a first packet, and the decoder has accumulated
\* an NTB that starts with 48 4D 43 4E and panicked on it.
C17_Witness ==
    /\ tx_sent # << >>
    /\ SubSeq(tx_sent[1], 1, 4) = << 78, 67, 77, 72 >>
    /\ rx_pc = "panicked"
    /\ rx_reads = 3
    /\ NtbSlice(ntb, 0, rx_pos) = SwappedSigNtb(IoDatagram)

\* The events of kind ev in the trace of the wait_connection call.
TraceCount(ev) == Cardinality({ i \in 1..Len(wc_trace) : wc_trace[i].ev = ev })

\* C18: wait_connection ordering.  Every packet written to the interrupt
\* endpoint is the 8 bytes A1 00 01 00 <data interface number> 00 00 00, and
\* the step that writes one belongs to a call in which wait_enabled had
\* completed first and the timer had expired after it, at least 1 second
\* after wait_enabled completed.
C18_WaitConnectionOrder ==
    /\ [](\A i \in 1..Len(notifs) :
            /\ Len(notifs[i]) = 8
            /\ notifs[i] = << 161, 0, 1, 0, data_if, 0, 0, 0 >>)
    /\ [][ notifs' # notifs =>
            /\ Len(notifs') = Len(notifs) + 1
            /\ Len(wc_trace) = 2
            /\ wc_trace[1].ev = "enabled"
            /\ wc_trace[2].ev = "elapsed"
            /\ wc_trace[2].t >= wc_trace[1].t + 1
            /\ now >= wc_trace[2].t ]_vars

\* On a device whose data interface is number 3, wait_enabled completed at
\* second 1, the timer expired at second 2 and the notification, with 3 at
\* byte 4, was written.
C18_Witness ==
    /\ data_if = 3
    /\ notifs = << << 161, 0, 1, 0, 3, 0, 0, 0 >> >>
    /\ Len(wc_trace) = 3
    /\ wc_trace[1] = [ev |-> "enabled", t |-> 1]
    /\ wc_trace[2] = [ev |-> "elapsed", t |-> 2]
    /\ wc_trace[3].ev = "written"

\* C19: Notification written once.  A wait_connection call ends at most one
\* notification write, successful or failed; after a failed write the call
\* has panicked, stays so, and nothing more is written; a call that has
\* returned ended with a successful write.
C19_NotifOnce ==
    /\ [](/\ TraceCount("written") + TraceCount("failed") <= 1
          /\ TraceCount("failed") > 0 => wc_pc = "panicked"
          /\ (wc_pc = "idle" /\ wc_trace # << >>) =>
                /\ wc_trace[Len(wc_trace)].ev = "written"
                /\ notifs # << >>)
    /\ [][ wc_pc = "panicked" => (wc_pc' = "panicked" /\ notifs' = notifs) ]_vars

\* After one call that returned, the notification write of the next call
\* failed and the call panicked.
C19_Witness ==
    /\ wc_pc = "panicked"
    /\ Len(notifs) = 1
    /\ Len(wc_trace) = 3
    /\ wc_trace[3].ev = "failed"

\* C20: Link-state invariant.  The flag is false before any handler call.
\* When set_alternate_setting or the Comm handler's reset has returned, the
\* flag is the value that call alone determines, whatever it was before:
\* true for the active setting, false for the default setting and for
\* reset.  No other handler call changes the flag, so in every state it is
\* the value of the last alternate-setting change or reset.
C20_LinkState ==
    /\ [](ctl_last = NoCall => enabled = FALSE)
    /\ [][ enabled' =
              (IF ctl_last'.h = "DataControl.set_alternate_setting" THEN ctl_last'.arg = 1
               ELSE IF ctl_last'.h = "CommControl.reset" THEN FALSE
               ELSE enabled) ]_vars

\* After two earlier alternate-setting changes or resets, the default
\* setting was selected: the flag is false.
C20_Witness ==
    /\ ctl_last = Call("DataControl.set_alternate_setting", 0, "none", << >>)
    /\ enabled = FALSE
    /\ rx_wakes = 3
    /\ tx_wakes = 3

\* C21 as claimed: No lost wakeup.  While the receive task is suspended in
\* wait_connection waiting for the data interface, every handler call that
\* wakes the rx waker finds the task registered in it and wakes it.
C21_NoLostWakeup ==
    [][ (wc_pc = "wait_enabled" /\ rx_wakes' # rx_wakes) =>
            \E i \in 1..Len(ctl_ops') : ctl_ops'[i] = WakeOp("rx", "rx_task") ]_vars

\* C22 as claimed: on a device built with max_packet_size 8, 16, 32 or 64,
\* no packet write_packet hands to the bulk-IN endpoint is longer than that
\* size, and the packets of a call that returned Ok are full-size ones
\* followed by one shorter than that size, which is what ends the NTB for a
\* Receiver that tests against the endpoint's max_packet_size.
C22_FragmentsByEndpointSize ==
    /\ tx_pc = "writing" =>
          Len(NthWrite(tx_header, tx_data, Len(tx_sent) + 1)) <= max_packet_size
    /\ TxOk =>
          /\ \A i \in 1..(Len(tx_sent) - 1) : Len(tx_sent[i]) = max_packet_size
          /\ Len(tx_sent[Len(tx_sent)]) < max_packet_size

\* C23: End-of-NTB detection.  A call enters the accumulation only with
\* cursor 0 and starts it at offset 0.  Every packet an endpoint read
\* returns is stored directly after the bytes accumulated before it, which
\* stay as they are.  After a packet of max_packet_size bytes the call reads
\* on and has parsed nothing; after the first shorter packet, a zero-length
\* one included, it reads no more and parses the NTH.
C23_EndOfNtb ==
    /\ [](rx_pc = "reading" => (ntb_index = 0 /\ rx_res = NoResult))
    /\ [][ (rx_pc = "idle" /\ rx_pc' = "reading") => (ntb_index = 0 /\ rx_pos' = 0) ]_vars
    /\ [][ (rx_pc = "reading" /\ rx_reads' = rx_reads + 1) =>
            LET pkt == Head(rxq)
            IN /\ rxq' = Tail(rxq)
               /\ rx_pos' = rx_pos + Len(pkt)
               /\ NtbSlice(ntb', rx_pos, Len(pkt)) = pkt
               /\ NtbSlice(ntb', 0, rx_pos) = NtbSlice(ntb, 0, rx_pos)
               /\ IF Len(pkt) < max_packet_size
                  THEN rx_pc' # "reading" /\ rx_res'.kind \in {"Ok", "panic"}
                  ELSE rx_pc' = "reading" ]_vars

\* With 16-byte packets, an NTB of 64 bytes was accumulated in four full
\* packets and ended by a zero-length one; its datagram was returned.
C23_Witness ==
    /\ max_packet_size = 16
    /\ rx_pc = "idle"
    /\ rx_reads = 5
    /\ rx_pos = 64
    /\ rx_res = [kind |-> "Ok", n |-> 36, buf |-> Datagram(36)]

\* A step of the Receiver against the host of SpecRx is the entry of a
\* read_packet call.
ReadEntryStep == rx_pc = "idle" /\ host_sends' = host_sends

\* C24: Cursor protocol.  A read_packet call issues an endpoint read exactly
\* when the cursor is 0 at its entry.  A call that returns Ok consumed the
\* NDP at the cursor of its entry or, after an accumulation, at the first-NDP
\* offset of the NTH: the cursor is then the next-NDP offset (bytes 6..8) of
\* that NDP, the result is the one datagram that NDP describes, and the
\* caller has got exactly that one datagram more.
C24_CursorProtocol ==
    /\ [][ ReadEntryStep => (rx_pc' = "reading" <=> ntb_index = 0) ]_vars
    /\ [][ rx_reads' > rx_reads => rx_pc = "reading" ]_vars
    /\ [][ (rx_res'.kind = "Ok" /\ (rx_pc = "reading" \/ ReadEntryStep)) =>
            LET idx == IF rx_pc = "reading" THEN NtbU16(ntb', 10) ELSE ntb_index
                n == NtbU16(ntb', idx + 10)
            IN /\ rx_pc' = "idle"
               /\ (rx_pc = "idle" => (rx_reads' = 0 /\ rxq' = rxq))
               /\ ntb_index' = NtbU16(ntb', idx + 6)
               /\ rx_res'.n = n
               /\ rx_res'.buf = NtbSlice(ntb', NtbU16(ntb', idx + 8), n)
               /\ delivered' = Append(delivered, rx_res'.buf) ]_vars

\* The first datagram of a chained NTB was returned after an accumulation,
\* and the cursor is on the second NDP, at offset 28.
C24_Witness ==
    /\ rx_pc = "idle"
    /\ rx_reads > 0
    /\ rx_res = [kind |-> "Ok", n |-> 5, buf |-> Datagram(5)]
    /\ ntb_index = 28
    /\ NtbU16(ntb, 12 + 6) = 28

\* The positions in the last handler call's operations of kind op on arg.
OpsAt(op, arg) == { i \in 1..Len(ctl_ops) : ctl_ops[i].op = op /\ ctl_ops[i].arg = arg }

\* C25: Store-before-wake.  A handler call that changes link state
\* (set_alternate_setting, the Comm handler's reset) writes the flag once,
\* before it wakes either waker, and wakes the rx waker and the tx waker
\* after that write; the flag it leaves is the value it wrote, so whatever
\* runs after a wake of the call finds the new value.  No other handler
\* call writes the flag or wakes a waker.
C25_StoreBeforeWake ==
    IF ctl_last.h \in {"DataControl.set_alternate_setting", "CommControl.reset"}
    THEN \E s \in 1..Len(ctl_ops) :
            /\ ctl_ops[s] = StoreOp(enabled)
            /\ \A i \in 1..Len(ctl_ops) : ctl_ops[i].op = "store" => i = s
            /\ \A i \in 1..Len(ctl_ops) : ctl_ops[i].op = "wake" => i > s
            /\ OpsAt("wake", "rx") # {}
            /\ OpsAt("wake", "tx") # {}
    ELSE ctl_ops = << >>

\* The active setting was selected: the call stored true, then woke the rx
\* waker, then the tx waker.
C25_Witness ==
    /\ ctl_last.h = "DataControl.set_alternate_setting"
    /\ ctl_last.arg = 1
    /\ enabled
    /\ ctl_ops = << StoreOp(TRUE), WakeOp("rx", NoWaiter), WakeOp("tx", NoWaiter) >>

\* A step of the named control handler.
HandlerStep(h) == ctl_last'.h = h /\ <<ctl_last, ctl_ops, rx_wakes>>' # <<ctl_last, ctl_ops, rx_wakes>>

\* The Sender's state and the Receiver's state.
SenderState == <<seq, tx_pc, tx_data, tx_header, tx_sent, tx_res, tx_err, wr_fail>>

ReceiverState == <<ntb, ntb_index, rx_pc, rx_pos, rx_reads, rx_res, rx_err, rd_fail>>

WaitConnectionState == <<wc_pc, wc_deadline, wc_trace, notifs>>

LinkState == <<enabled, rx_wakes, tx_wakes>>

\* C26: Frame condition on the link state.  A step that changes the enabled
\* flag is a step of CommControl::reset or of set_alternate_setting; a step
\* of control_out, of control_in, of write_packet, of read_packet or of
\* wait_connection leaves the flag as it is and wakes neither waker; a step
\* of write_packet leaves the accumulation buffer, its cursor and the rest
\* of the Receiver as they are, and a step of read_packet leaves the
\* sequence counter and the rest of the Sender as they are.
C26_LinkFrame ==
    [][ /\ enabled' # enabled =>
              \/ HandlerStep("CommControl.reset")
              \/ HandlerStep("DataControl.set_alternate_setting")
        /\ LinkState' # LinkState =>
              /\ ~HandlerStep("CommControl.control_out")
              /\ ~HandlerStep("CommControl.control_in")
              /\ SenderState' = SenderState
              /\ ReceiverState' = ReceiverState
              /\ WaitConnectionState' = WaitConnectionState
        /\ SenderState' # SenderState => ReceiverState' = ReceiverState
        /\ ReceiverState' # ReceiverState => SenderState' = SenderState ]_vars

\* Every operation has run while the link was up: a datagram was written, one
\* was read, wait_connection has sent its notification, and the last
\* handler call was a control_in.
C26_Witness ==
    /\ enabled
    /\ TxOk /\ seq = 1
    /\ rx_res = [kind |-> "Ok", n |-> 7, buf |-> Datagram(7)]
    /\ ntb # << >>
    /\ notifs # << >>
    /\ ctl_last.h = "CommControl.control_in"

\* read_packet is entered, and wait_connection is entered.
ReadCall == rx_pc = "idle" /\ ReceiverState' # ReceiverState

WaitConnectionCall == wc_pc = "idle" /\ wc_pc' = "wait_enabled"

\* The Receiver calls of the task so far include a wait_connection that
\* returned, and no read_packet has returned an error since.
ConnectedSinceError ==
    \E i \in 1..Len(task_log) :
        /\ task_log[i] = "connected"
        /\ \A j \in (i + 1)..Len(task_log) : task_log[j] # "read_err"

\* C27: Receive-loop protocol.  In usb_ncm_rx_task every read_packet call is
\* made after a wait_connection call has returned since the task started or
\* since the last read_packet error, and the first call on the Receiver
\* after a read_packet error is a wait_connection call.
C27_ReceiveLoop ==
    [][ /\ ReadCall => ConnectedSinceError
        /\ ( /\ task_log # << >> /\ task_log[Len(task_log)] = "read_err"
             /\ wc_pc = "idle"
             /\ <<ReceiverState, WaitConnectionState>>' # <<ReceiverState, WaitConnectionState>> )
           => WaitConnectionCall ]_vars

\* The task has connected, read a datagram, seen a read error, connected
\* again and is in read_packet once more.
C27_Witness ==
    /\ task_log = << "connected", "read_ok", "read_err", "connected" >>
    /\ rx_pc = "reading"

\* The cursor after up to k further read_packet calls on the buffered NTB nt,
\* from cursor idx: each call consumes the NDP at the cursor, and the calls
\* stop at cursor 0 or at a panic.
RECURSIVE CursorAfter(_, _, _)
CursorAfter(nt, idx, k) ==
    IF k = 0 \/ idx = 0 THEN idx
    ELSE LET o == ConsumeNdp(nt, idx)
         IN IF o.pc = "panicked" THEN idx ELSE CursorAfter(nt, o.index, k - 1)

\* C28: NDP chain exhaustion.  Whenever read_packet has returned with a
\* nonzero cursor, a finite number of further read_packet calls brings the
\* cursor back to 0, whatever NTB the host has sent.  (A chain that ends
\* visits no offset twice, and an NDP past the bytes ever written to the
\* buffer reads as zeros and ends the chain, so one call more than the
\* buffer holds bytes is enough for any chain that ends.)
C28_ChainExhausted ==
    (rx_pc = "idle" /\ ntb_index # 0) => CursorAfter(ntb, ntb_index, Len(ntb) + 1) = 0

\* C29: Length fields.  For every datagram write_packet takes, of whatever
\* length L, the header in the first packet written gives L + 28 as the
\* total NTB length (offset 8) and L as the datagram length (offset 22),
\* also when L > 65507.
C29_LengthFields ==
    tx_sent # << >> =>
        /\ FieldU16(tx_sent[1], 8) = Len(tx_data) + OUT_HEADER_LEN
        /\ FieldU16(tx_sent[1], 22) = Len(tx_data)

\* ceil(NTB_MAX_SIZE / max_packet_size)
FullReads == (NTB_MAX_SIZE + max_packet_size - 1) \div max_packet_size

\* Endpoint reads the current (or last) read_packet call has issued and seen
\* complete, the failed one included.
ReadsCompleted == rx_reads + (IF rd_fail = NoFail THEN 0 ELSE 1)

\* C30: Accumulation is bounded.  The write position into the accumulation
\* buffer never exceeds 1600 and the buffer never holds more; a read_packet
\* call sees at most ceil(1600 / max_packet_size) + 1 endpoint reads
\* complete; and once fewer than max_packet_size bytes of the buffer remain,
\* the next endpoint read to complete ends the accumulation loop: it is short
\* or an error.
C30_AccumulationBounded ==
    /\ [](rx_pos <= NTB_MAX_SIZE /\ Len(ntb) <= NTB_MAX_SIZE)
    /\ [](ReadsCompleted <= FullReads + 1)
    /\ [][ ( /\ rx_pc = "reading"
             /\ NTB_MAX_SIZE - rx_pos < max_packet_size
             /\ ReceiverState' # ReceiverState )
           => /\ rx_pc' # "reading"
              /\ \/ rx_res'.kind = "Err"
                 \/ rx_pos' - rx_pos < max_packet_size ]_vars

\* With an endpoint of 64 bytes the host has sent 26 full packets: 25 reads
\* filled the buffer and the 26th failed, which ended the call.
C30_Witness ==
    /\ max_packet_size = 64
    /\ rx_pc = "idle"
    /\ rx_res = ErrResult
    /\ rx_err = "BufferOverflow"
    /\ rx_pos = NTB_MAX_SIZE
    /\ rx_reads = 25
    /\ rd_fail = Fail("BufferOverflow", 26)

\* A step in which a read_packet call returns Ok, and the offset of the NDP
\* that call consumed: the cursor of its entry or, after an accumulation,
\* the first-NDP offset of the NTH.
ReturnsOk == rx_res'.kind = "Ok" /\ ReceiverState' # ReceiverState

ConsumedNdp == IF rx_pc = "reading" THEN NtbU16(ntb', 10) ELSE ntb_index

\* C31: No stale data.  Every datagram read_packet returns lies inside the
\* bytes accumulated for the NTB being consumed: the datagram offset plus
\* the datagram length of the NDP consumed is at most the number of bytes
\* the accumulation of that NTB has read.
C31_NoStaleData ==
    [][ ReturnsOk =>
            NtbU16(ntb', ConsumedNdp + 8) + NtbU16(ntb', ConsumedNdp + 10) <= rx_pos' ]_vars

\* The last read_packet call of the task returned an error.
LastReadFailed ==
    \E i \in 1..Len(task_log) :
        /\ task_log[i] = "read_err"
        /\ \A j \in (i + 1)..Len(task_log) : task_log[j] = "connected"

\* After an error the cursor is 0.
CursorZeroAfterError == LastReadFailed => ntb_index = 0

\* The call after an error starts an accumulation at offset 0.
FreshAccumulationAfterError ==
    [][ (LastReadFailed /\ ReadCall) => (rx_pc' = "reading" /\ rx_pos' = 0) ]_vars

\* C32: After read_packet has returned an EndpointError the cursor is 0; the
\* next read_packet call starts an accumulation at buffer offset 0; and what
\* that call parses and returns is an NTB of its own accumulation, not what
\* the failed call left in the buffer: the NTH, the NDP and the datagram lie
\* in the bytes the call has read.
C32_FreshAfterError ==
    /\ []CursorZeroAfterError
    /\ FreshAccumulationAfterError
    /\ [][ (LastReadFailed /\ ReturnsOk) =>
              /\ rx_pc = "reading"
              /\ NTH_LEN <= rx_pos'
              /\ ConsumedNdp + 12 <= rx_pos'
              /\ NtbU16(ntb', ConsumedNdp + 8) + NtbU16(ntb', ConsumedNdp + 10) <= rx_pos' ]_vars

\* Packet i of the stream ps is the first of a transfer: it is the first
\* packet, or the packet before it is shorter than 64 bytes.
StartsTransfer(ps, i) == i = 1 \/ Len(ps[i - 1]) < MAX_PACKET_SIZE

\* C33: Framing survives a failed send.  In the stream of packets delivered
\* to the host, every packet that starts a transfer starts with the four
\* bytes of the NTH signature, whichever write_packet calls were aborted by
\* an endpoint error and whichever succeeded.
C33_FramingSurvives ==
    \A i \in 1..Len(rxq) :
        StartsTransfer(rxq, i) =>
            /\ Len(rxq[i]) >= 4
            /\ SubSeq(rxq[i], 1, 4) = LE32(NTH_SIG)

\* The first call, for 100 bytes, was aborted after its first packet; the
\* second call, for an empty datagram, has returned Ok: the host has one full
\* packet of the aborted NTB followed by the 28-byte NTB of the second call.
C33_Witness ==
    /\ TxOk
    /\ seq = 2
    /\ rxq = << NthWrite(NtbOutHeader(0, 100), Datagram(100), 1), NtbOutHeader(1, 0) >>

\* C34: Order preservation.  Through the loopback, with every packet of
\* every successful write_packet call delivered in order, each read_packet
\* call that returns does so after one accumulation of its own, of as many
\* endpoint reads as the write_packet call made writes, and returns the next
\* datagram sent that has not been returned yet: the datagrams come back in
\* the order sent, each once, and the cursor is 0 between the calls.
C34_OrderPreserved ==
    /\ [](ntb_index = 0)
    /\ [](Len(delivered) <= Len(loop_log))
    /\ [][ ReturnsOk =>
              /\ rx_pc = "reading"
              /\ Len(delivered) < Len(loop_log)
              /\ rx_res'.buf = loop_log[Len(delivered) + 1]
              /\ rx_reads' = NumWrites(rx_res'.buf)
              /\ delivered' = Append(delivered, rx_res'.buf) ]_vars

\* 100 bytes and then 36 bytes were sent, and two read_packet calls have
\* returned them in that order, the second after two endpoint reads.
C34_Witness ==
    /\ loop_log = << Datagram(100), Datagram(36) >>
    /\ delivered = loop_log
    /\ rx_pc = "idle"
    /\ rx_reads = 2
    /\ rxq = << >>

\* C35: The link-up notification is written only while the data interface
\* is enabled: when the settle delay of a wait_connection call ends, the call
\* goes on to write the notification only if the enabled flag is set, so
\* that a call whose interface was disabled during the delay writes nothing
\* for that enable event.
C35_NotifOnlyWhileEnabled ==
    [][ (wc_pc = "timer" /\ wc_pc' = "writing") => enabled ]_vars

\* The datagrams of the entries j, j + 1, .. of the NDP at offset idx of nt,
\* up to its zero terminator or its end.
RECURSIVE NdpDatagrams(_, _, _)
NdpDatagrams(nt, idx, j) ==
    LET off == NtbU16(nt, idx + 8 + 4 * j)
        len == NtbU16(nt, idx + 10 + 4 * j)
    IN IF 12 + 4 * j > NtbU16(nt, idx + 4) \/ (off = 0 /\ len = 0) THEN << >>
       ELSE << NtbSlice(nt, off, len) >> \o NdpDatagrams(nt, idx, j + 1)

\* The datagrams of all entries of the NDPs of nt, along the chain from the
\* NDP at idx, for at most k NDPs.
RECURSIVE ChainDatagrams(_, _, _)
ChainDatagrams(nt, idx, k) ==
    IF idx = 0 \/ k = 0 THEN << >>
    ELSE NdpDatagrams(nt, idx, 0) \o ChainDatagrams(nt, NtbU16(nt, idx + 6), k - 1)

NtbDatagrams(nt) == ChainDatagrams(nt, NtbU16(nt, 10), Len(nt))

\* The last n elements of the sequence q.
LastN(q, n) == SubSeq(q, Len(q) - n + 1, Len(q))

\* C36: No datagram is dropped by the decoder.  When read_packet has
\* returned with cursor 0, so that its next call reads the next NTB, the
\* datagrams returned last are those of all entries of all NDPs of the NTB
\* in the buffer, each once and in the order of the chain, also for an NDP
\* with more than one entry.
C36_NoDatagramDropped ==
    (rx_pc = "idle" /\ rx_res.kind = "Ok" /\ ntb_index = 0) =>
        LET ds == NtbDatagrams(NtbSlice(ntb, 0, rx_pos))
        IN /\ Len(ds) <= Len(delivered)
           /\ LastN(delivered, Len(ds)) = ds

====
